---- MODULE Spec2Model ----
(***************************************************************************)
(* Query processing pipeline of the Bangalore Local Guide                  *)
(* (src/query_processor.py) together with the AgentManager it drives       *)
(* (src/bangalore-local-guide/agent_manager.py).                           *)
(*                                                                         *)
(* A text is a sequence of one-character strings.  The regular expressions *)
(* of the source are evaluated with Python's semantics: leftmost match,    *)
(* ordered alternation, greedy ".*" that does not cross a newline, "\b"    *)
(* word boundaries and non-overlapping findall.  A confidence is kept in   *)
(* tenths (5 stands for 0.5, 7 for 0.7, 9 for 0.9): every confidence the     *)
(* code computes is one of the floats 0.0, 0.5, 0.7, 0.9.                  *)
(***************************************************************************)
EXTENDS Integers, Sequences, FiniteSets, TLC

VARIABLES
    agent_initialized,  \* QueryProcessor._agent_initialized
    agent,              \* AgentManager.agent
    session_id,         \* AgentManager.session_id
    call,               \* the process_query call the caller is looking at
    type_scores,        \* _determine_query_type: the dict of positive scores
    typed,              \* _determine_query_type: the (type, confidence) returned
    threads,            \* concurrent callers: where each one is in process_query
    pipeline,           \* one process_query call followed stage by stage
    analysis,           \* analyze_query: the last two analyses made
    product_file,       \* the file at ContextManager.product_file_path
    _cached_context,    \* ContextManager._cached_context
    _last_check_time,   \* ContextManager._last_check_time
    loaded,             \* the outcome of the last load_context call
    _error_history,     \* ErrorHandler._error_history
    returned,           \* what the last ErrorHandler call returned
    integration         \* the fields of the IntegrationManager

pipelineVars    == <<pipeline>>
analyzerVars    == <<analysis>>
contextVars     == <<product_file, _cached_context, _last_check_time, loaded>>
errorVars       == <<_error_history, returned>>
integrationVars == <<integration>>

\* what the query processor and its callers leave alone
others ==
    <<pipelineVars, analyzerVars, contextVars, errorVars, integrationVars>>

vars ==
    <<agent_initialized, agent, session_id, call, type_scores, typed, threads,
      others>>

\* Bounds: fragments in a raw input, words in a query, clock readings,
\* matches counted for one query type, entries in the error history
MaxFrags == 2
MaxWords == 2
MaxClock == 2
MaxScore == 3
MaxErrors == 3

----------------------------------------------------------------------------
(* Characters and the str methods the pipeline uses *)

Max(S) == CHOOSE x \in S : \A y \in S : y <= x
Min(S) == CHOOSE x \in S : \A y \in S : x <= y

UpperCase ==
    << "A", "B", "C", "D", "E", "F", "G", "H", "I", "J", "K", "L", "M",
       "N", "O", "P", "Q", "R", "S", "T", "U", "V", "W", "X", "Y", "Z" >>
LowerCase ==
    << "a", "b", "c", "d", "e", "f", "g", "h", "i", "j", "k", "l", "m",
       "n", "o", "p", "q", "r", "s", "t", "u", "v", "w", "x", "y", "z" >>
Digits == {"0", "1", "2", "3", "4", "5", "6", "7", "8", "9"}

Range(f) == {f[i] : i \in DOMAIN f}

\* str.isspace for the characters of the model: what \s and str.strip() remove
SpaceChars == {" ", "\n", "\t"}
IsSpace(c) == c \in SpaceChars

\* \w of the re module
WordChars == Range(UpperCase) \cup Range(LowerCase) \cup Digits \cup {"_"}
IsWord(c) == c \in WordChars

\* str.lower on one character
LowerOf ==
    [c \in Range(UpperCase) |->
       LowerCase[CHOOSE k \in DOMAIN UpperCase : UpperCase[k] = c]]
LowerChar(c) == IF c \in DOMAIN LowerOf THEN LowerOf[c] ELSE c

\* str.lower
Lower(s) == SubSeq([i \in 1..Len(s) |-> LowerChar(s[i])], 1, Len(s))

\* str.strip
Strip(s) ==
    LET n     == Len(s)
        left  == {i \in 1..n : ~IsSpace(s[i])}
        right == {j \in 1..n : ~IsSpace(s[n + 1 - j])}
    IN  IF left = {} THEN <<>>
        ELSE SubSeq(s, Min(left), n + 1 - Min(right))

\* re.sub(r'\s+', ' ', s): every maximal run of whitespace becomes one space
CollapseWhitespace(s) ==
    LET marked == [i \in 1..Len(s) |->
                     IF ~IsSpace(s[i]) THEN s[i]
                     ELSE IF i > 1 /\ IsSpace(s[i-1]) THEN "" ELSE " "]
        Kept(c) == c # ""
    IN  SelectSeq(marked, Kept)

\* re.sub(r'[<>{}]', '', s)
RemoveHarmful(s) ==
    LET Kept(c) == c \notin {"<", ">", "{", "}"}
    IN  SelectSeq(s, Kept)

----------------------------------------------------------------------------
(* Regular expression matching *)

\* the literal lit occurs in s starting at position i
MatchAt(s, i, lit) ==
    /\ i >= 1
    /\ i + Len(lit) - 1 <= Len(s)
    /\ \A k \in 1..Len(lit) : s[i + k - 1] = lit[k]

\* the literal occurs somewhere in s (a pattern that is a plain literal,
\* and Python's "in" on strings)
Contains(s, lit) == \E i \in 1..Len(s) : MatchAt(s, i, lit)

\* \b between s[p] and s[p+1], for p in 0..Len(s)
WordBoundary(s, p) ==
    LET before == p >= 1 /\ IsWord(s[p])
        after  == p + 1 <= Len(s) /\ IsWord(s[p + 1])
    IN  before # after

\* one alternative of a group: a literal, or  pre.*post
Lit(w) == [gap |-> FALSE, pre |-> w, post |-> <<>>]
Gap(w, v) == [gap |-> TRUE, pre |-> w, post |-> v]

\* Position of the last character of the match of alternative a followed by
\* \b when the match is attempted at i, or 0 when there is none.  The greedy
\* ".*" takes the longest stretch without a newline that lets the rest match.
AltEnd(s, i, a) ==
    IF ~MatchAt(s, i, a.pre) THEN 0
    ELSE IF ~a.gap
    THEN IF WordBoundary(s, i + Len(a.pre) - 1) THEN i + Len(a.pre) - 1 ELSE 0
    ELSE LET from == i + Len(a.pre)
             ends == {e \in (from + Len(a.post) - 1)..Len(s) :
                        /\ MatchAt(s, e - Len(a.post) + 1, a.post)
                        /\ WordBoundary(s, e)
                        /\ \A k \in from..(e - Len(a.post)) : s[k] # "\n"}
         IN  IF ends = {} THEN 0 ELSE Max(ends)

\* \b(a1|a2|...)\b attempted at i: the first alternative that can match wins
MatchEnd(s, i, alts) ==
    IF ~WordBoundary(s, i - 1) THEN 0
    ELSE LET ok == {k \in 1..Len(alts) : AltEnd(s, i, alts[k]) # 0}
         IN  IF ok = {} THEN 0 ELSE AltEnd(s, i, alts[Min(ok)])

\* re.search(pattern, s) is not None
Search(s, alts) == \E i \in 1..Len(s) : MatchEnd(s, i, alts) # 0

\* len(re.findall(pattern, s)): leftmost matches, none overlapping another
RECURSIVE CountFrom(_, _, _)
CountFrom(s, alts, pos) ==
    LET starts == {i \in pos..Len(s) : MatchEnd(s, i, alts) # 0}
    IN  IF starts = {} THEN 0
        ELSE 1 + CountFrom(s, alts, MatchEnd(s, Min(starts), alts) + 1)

FindAllCount(s, alts) == CountFrom(s, alts, 1)

----------------------------------------------------------------------------
(* QueryValidator *)

min_length == 2
max_length == 500

\* r'<script.*?>.*?</script>': an opening tag, a ">" and a closing tag with no
\* newline anywhere between "<script" and "</script>" ("." stops at a newline)
ScriptTagPattern(s) ==
    LET open  == <<"<", "s", "c", "r", "i", "p", "t">>
        close == <<"<", "/", "s", "c", "r", "i", "p", "t", ">">>
    IN  \E i \in 1..Len(s) :
          /\ MatchAt(s, i, open)
          /\ \E j \in (i + Len(open))..Len(s) :
               /\ s[j] = ">"
               /\ \E k \in (j + 1)..Len(s) :
                    /\ MatchAt(s, k, close)
                    /\ \A m \in (i + Len(open))..(k - 1) : s[m] # "\n"

\* forbidden_patterns, tried in order by re.search
ForbiddenPatterns(s) ==
    \/ ScriptTagPattern(s)
    \/ Contains(s, <<"j", "a", "v", "a", "s", "c", "r", "i", "p", "t", ":">>)
    \/ Contains(s, <<"d", "a", "t", "a", ":">>)
    \/ Contains(s, <<"v", "b", "s", "c", "r", "i", "p", "t", ":">>)

\* len(query_text.strip()) < self.min_length
TooShort(query_text) == Len(Strip(query_text)) < min_length

\* the upper limit applied to the stripped text instead of the raw one
TooLong_stripped(query_text) == Len(Strip(query_text)) > max_length

\* len(query_text) > self.max_length
TooLong(query_text) == Len(query_text) > max_length

_clean_query(query_text) ==
    RemoveHarmful(CollapseWhitespace(Strip(query_text)))

\* validate_query returns (is_valid, cleaned_text, error_message)
validate_query(query_text) ==
    IF query_text = <<>>
    THEN [is_valid |-> FALSE, cleaned_text |-> <<>>,
          error_message |-> "Query cannot be empty"]
    ELSE IF TooShort(query_text)
    THEN [is_valid |-> FALSE, cleaned_text |-> <<>>,
          error_message |-> "Query too short (minimum 2 characters)"]
    ELSE IF TooLong(query_text)
    THEN [is_valid |-> FALSE, cleaned_text |-> <<>>,
          error_message |-> "Query too long (maximum 500 characters)"]
    ELSE IF ForbiddenPatterns(Lower(query_text))
    THEN [is_valid |-> FALSE, cleaned_text |-> <<>>,
          error_message |-> "Query contains invalid content"]
    ELSE [is_valid |-> TRUE, cleaned_text |-> _clean_query(query_text),
          error_message |-> ""]

----------------------------------------------------------------------------
(* QueryAnalyzer: the pattern tables *)

\* query_processor.py:114  r'\b(food|eat|breakfast|lunch|dinner|restaurant|cafe|dosa|idli|meal|hungry|taste)\b'
FoodP1 ==
    << Lit(<<"f", "o", "o", "d">>),
       Lit(<<"e", "a", "t">>),
       Lit(<<"b", "r", "e", "a", "k", "f", "a", "s", "t">>),
       Lit(<<"l", "u", "n", "c", "h">>),
       Lit(<<"d", "i", "n", "n", "e", "r">>),
       Lit(<<"r", "e", "s", "t", "a", "u", "r", "a", "n", "t">>),
       Lit(<<"c", "a", "f", "e">>),
       Lit(<<"d", "o", "s", "a">>),
       Lit(<<"i", "d", "l", "i">>),
       Lit(<<"m", "e", "a", "l">>),
       Lit(<<"h", "u", "n", "g", "r", "y">>),
       Lit(<<"t", "a", "s", "t", "e">>) >>

\* query_processor.py:115  r'\b(where.*eat|what.*eat|food.*recommend|restaurant.*suggest)\b'
FoodP2 ==
    << Gap(<<"w", "h", "e", "r", "e">>, <<"e", "a", "t">>),
       Gap(<<"w", "h", "a", "t">>, <<"e", "a", "t">>),
       Gap(<<"f", "o", "o", "d">>, <<"r", "e", "c", "o", "m", "m", "e", "n", "d">>),
       Gap(<<"r", "e", "s", "t", "a", "u", "r", "a", "n", "t">>, <<"s", "u", "g", "g", "e", "s", "t">>) >>

\* query_processor.py:116  r'\b(malleshwaram|basavanagudi|vv puram|street food)\b'
FoodP3 ==
    << Lit(<<"m", "a", "l", "l", "e", "s", "h", "w", "a", "r", "a", "m">>),
       Lit(<<"b", "a", "s", "a", "v", "a", "n", "a", "g", "u", "d", "i">>),
       Lit(<<"v", "v", " ", "p", "u", "r", "a", "m">>),
       Lit(<<"s", "t", "r", "e", "e", "t", " ", "f", "o", "o", "d">>) >>

\* query_processor.py:119  r'\b(traffic|road|drive|metro|transport|travel|commute|bus|auto)\b'
TrafficP1 ==
    << Lit(<<"t", "r", "a", "f", "f", "i", "c">>),
       Lit(<<"r", "o", "a", "d">>),
       Lit(<<"d", "r", "i", "v", "e">>),
       Lit(<<"m", "e", "t", "r", "o">>),
       Lit(<<"t", "r", "a", "n", "s", "p", "o", "r", "t">>),
       Lit(<<"t", "r", "a", "v", "e", "l">>),
       Lit(<<"c", "o", "m", "m", "u", "t", "e">>),
       Lit(<<"b", "u", "s">>),
       Lit(<<"a", "u", "t", "o">>) >>

\* query_processor.py:120  r'\b(silk board|electronic city|outer ring|whitefield|hebbal)\b'
TrafficP2 ==
    << Lit(<<"s", "i", "l", "k", " ", "b", "o", "a", "r", "d">>),
       Lit(<<"e", "l", "e", "c", "t", "r", "o", "n", "i", "c", " ", "c", "i", "t", "y">>),
       Lit(<<"o", "u", "t", "e", "r", " ", "r", "i", "n", "g">>),
       Lit(<<"w", "h", "i", "t", "e", "f", "i", "e", "l", "d">>),
       Lit(<<"h", "e", "b", "b", "a", "l">>) >>

\* query_processor.py:121  r'\b(how.*reach|traffic.*bad|metro.*better|avoid.*traffic)\b'
TrafficP3 ==
    << Gap(<<"h", "o", "w">>, <<"r", "e", "a", "c", "h">>),
       Gap(<<"t", "r", "a", "f", "f", "i", "c">>, <<"b", "a", "d">>),
       Gap(<<"m", "e", "t", "r", "o">>, <<"b", "e", "t", "t", "e", "r">>),
       Gap(<<"a", "v", "o", "i", "d">>, <<"t", "r", "a", "f", "f", "i", "c">>) >>

\* query_processor.py:124  r'\b(slang|mean|meaning|what.*mean|explain|guru|machcha|sakkath|scene illa)\b'
SlangP1 ==
    << Lit(<<"s", "l", "a", "n", "g">>),
       Lit(<<"m", "e", "a", "n">>),
       Lit(<<"m", "e", "a", "n", "i", "n", "g">>),
       Gap(<<"w", "h", "a", "t">>, <<"m", "e", "a", "n">>),
       Lit(<<"e", "x", "p", "l", "a", "i", "n">>),
       Lit(<<"g", "u", "r", "u">>),
       Lit(<<"m", "a", "c", "h", "c", "h", "a">>),
       Lit(<<"s", "a", "k", "k", "a", "t", "h">>),
       Lit(<<"s", "c", "e", "n", "e", " ", "i", "l", "l", "a">>) >>

\* query_processor.py:125  r'\b(what.*guru|what.*machcha|what.*sakkath|scene illa maga)\b'
SlangP2 ==
    << Gap(<<"w", "h", "a", "t">>, <<"g", "u", "r", "u">>),
       Gap(<<"w", "h", "a", "t">>, <<"m", "a", "c", "h", "c", "h", "a">>),
       Gap(<<"w", "h", "a", "t">>, <<"s", "a", "k", "k", "a", "t", "h">>),
       Lit(<<"s", "c", "e", "n", "e", " ", "i", "l", "l", "a", " ", "m", "a", "g", "a">>) >>

\* query_processor.py:128  r'\b(itinerary|plan|day|visit|places|tour|trip|schedule)\b'
ItineraryP1 ==
    << Lit(<<"i", "t", "i", "n", "e", "r", "a", "r", "y">>),
       Lit(<<"p", "l", "a", "n">>),
       Lit(<<"d", "a", "y">>),
       Lit(<<"v", "i", "s", "i", "t">>),
       Lit(<<"p", "l", "a", "c", "e", "s">>),
       Lit(<<"t", "o", "u", "r">>),
       Lit(<<"t", "r", "i", "p">>),
       Lit(<<"s", "c", "h", "e", "d", "u", "l", "e">>) >>

\* query_processor.py:129  r'\b(one day|full day|places.*visit|what.*see|plan.*day)\b'
ItineraryP2 ==
    << Lit(<<"o", "n", "e", " ", "d", "a", "y">>),
       Lit(<<"f", "u", "l", "l", " ", "d", "a", "y">>),
       Gap(<<"p", "l", "a", "c", "e", "s">>, <<"v", "i", "s", "i", "t">>),
       Gap(<<"w", "h", "a", "t">>, <<"s", "e", "e">>),
       Gap(<<"p", "l", "a", "n">>, <<"d", "a", "y">>) >>

\* query_processor.py:132  r'\b(culture|custom|tradition|etiquette|behavior|respect|temple)\b'
CultureP1 ==
    << Lit(<<"c", "u", "l", "t", "u", "r", "e">>),
       Lit(<<"c", "u", "s", "t", "o", "m">>),
       Lit(<<"t", "r", "a", "d", "i", "t", "i", "o", "n">>),
       Lit(<<"e", "t", "i", "q", "u", "e", "t", "t", "e">>),
       Lit(<<"b", "e", "h", "a", "v", "i", "o", "r">>),
       Lit(<<"r", "e", "s", "p", "e", "c", "t">>),
       Lit(<<"t", "e", "m", "p", "l", "e">>) >>

\* query_processor.py:133  r'\b(cultural.*norm|how.*behave|what.*expect|local.*custom)\b'
CultureP2 ==
    << Gap(<<"c", "u", "l", "t", "u", "r", "a", "l">>, <<"n", "o", "r", "m">>),
       Gap(<<"h", "o", "w">>, <<"b", "e", "h", "a", "v", "e">>),
       Gap(<<"w", "h", "a", "t">>, <<"e", "x", "p", "e", "c", "t">>),
       Gap(<<"l", "o", "c", "a", "l">>, <<"c", "u", "s", "t", "o", "m">>) >>

\* query_processor.py:138  r'\b(morning|breakfast|6am|7am|8am|9am|early)\b'
MorningP ==
    << Lit(<<"m", "o", "r", "n", "i", "n", "g">>),
       Lit(<<"b", "r", "e", "a", "k", "f", "a", "s", "t">>),
       Lit(<<"6", "a", "m">>),
       Lit(<<"7", "a", "m">>),
       Lit(<<"8", "a", "m">>),
       Lit(<<"9", "a", "m">>),
       Lit(<<"e", "a", "r", "l", "y">>) >>

\* query_processor.py:139  r'\b(afternoon|lunch|12pm|1pm|2pm|3pm|noon)\b'
AfternoonP ==
    << Lit(<<"a", "f", "t", "e", "r", "n", "o", "o", "n">>),
       Lit(<<"l", "u", "n", "c", "h">>),
       Lit(<<"1", "2", "p", "m">>),
       Lit(<<"1", "p", "m">>),
       Lit(<<"2", "p", "m">>),
       Lit(<<"3", "p", "m">>),
       Lit(<<"n", "o", "o", "n">>) >>

\* query_processor.py:140  r'\b(evening|dinner|6pm|7pm|8pm|9pm|night)\b'
EveningP ==
    << Lit(<<"e", "v", "e", "n", "i", "n", "g">>),
       Lit(<<"d", "i", "n", "n", "e", "r">>),
       Lit(<<"6", "p", "m">>),
       Lit(<<"7", "p", "m">>),
       Lit(<<"8", "p", "m">>),
       Lit(<<"9", "p", "m">>),
       Lit(<<"n", "i", "g", "h", "t">>) >>

\* query_processor.py:144  r'\bmalleshwaram\b'
MalleshwaramP ==
    << Lit(<<"m", "a", "l", "l", "e", "s", "h", "w", "a", "r", "a", "m">>) >>

\* query_processor.py:145  r'\bbasavanagudi\b'
BasavanagudiP ==
    << Lit(<<"b", "a", "s", "a", "v", "a", "n", "a", "g", "u", "d", "i">>) >>

\* query_processor.py:146  r'\bkoramangala\b'
KoramangalaP ==
    << Lit(<<"k", "o", "r", "a", "m", "a", "n", "g", "a", "l", "a">>) >>

\* query_processor.py:147  r'\bindiranagar\b'
IndiranagarP ==
    << Lit(<<"i", "n", "d", "i", "r", "a", "n", "a", "g", "a", "r">>) >>

\* query_processor.py:148  r'\bwhitefield\b'
WhitefieldP ==
    << Lit(<<"w", "h", "i", "t", "e", "f", "i", "e", "l", "d">>) >>

\* query_processor.py:149  r'\belectronic city\b'
ElectronicCityP ==
    << Lit(<<"e", "l", "e", "c", "t", "r", "o", "n", "i", "c", " ", "c", "i", "t", "y">>) >>

\* query_processor.py:150  r'\bsilk board\b'
SilkBoardP ==
    << Lit(<<"s", "i", "l", "k", " ", "b", "o", "a", "r", "d">>) >>

\* query_patterns, in the insertion order of the dict
QueryTypeOrder == <<"food", "traffic", "slang", "itinerary", "culture">>

query_patterns ==
    [food      |-> <<FoodP1, FoodP2, FoodP3>>,
     traffic   |-> <<TrafficP1, TrafficP2, TrafficP3>>,
     slang     |-> <<SlangP1, SlangP2>>,
     itinerary |-> <<ItineraryP1, ItineraryP2>>,
     culture   |-> <<CultureP1, CultureP2>>]

\* time_patterns, in the insertion order of the dict
TimeOrder == <<"morning", "afternoon", "evening">>

time_patterns ==
    [morning |-> MorningP, afternoon |-> AfternoonP, evening |-> EveningP]

\* location_patterns, in the insertion order of the dict
LocationOrder ==
    <<"malleshwaram", "basavanagudi", "koramangala", "indiranagar",
      "whitefield", "electronic_city", "silk_board">>

location_patterns ==
    [malleshwaram    |-> MalleshwaramP,
     basavanagudi    |-> BasavanagudiP,
     koramangala     |-> KoramangalaP,
     indiranagar     |-> IndiranagarP,
     whitefield      |-> WhitefieldP,
     electronic_city |-> ElectronicCityP,
     silk_board      |-> SilkBoardP]

----------------------------------------------------------------------------
(* QueryAnalyzer: classification and context extraction *)

\* the inner loop of _determine_query_type: score += len(re.findall(...))
RECURSIVE SumMatches(_, _, _)
SumMatches(q, patterns, n) ==
    IF n = 0 THEN 0
    ELSE SumMatches(q, patterns, n - 1) + FindAllCount(q, patterns[n])

Score(q, query_type) ==
    SumMatches(q, query_patterns[query_type], Len(query_patterns[query_type]))

\* every type gets a key, whatever its score
TypeScores_all_keys(q) == [t \in Range(QueryTypeOrder) |-> Score(q, t)]

\* type_scores: only the types with a positive score get a key
TypeScores(q) ==
    LET all == [t \in Range(QueryTypeOrder) |-> Score(q, t)]
    IN  [t \in {u \in Range(QueryTypeOrder) : all[u] > 0} |-> all[t]]

\* a later key replaces the best one also when equal: the last maximum wins
BestType_last(scores) ==
    LET keys == {k \in 1..Len(QueryTypeOrder) :
                   QueryTypeOrder[k] \in DOMAIN scores}
        best == CHOOSE k \in keys :
                  /\ \A j \in keys : scores[QueryTypeOrder[j]]
                                       <= scores[QueryTypeOrder[k]]
                  /\ \A j \in keys : j > k =>
                        scores[QueryTypeOrder[j]]
                          < scores[QueryTypeOrder[k]]
    IN  QueryTypeOrder[best]

\* max(type_scores, key=type_scores.get): the keys are visited in insertion
\* order and a later key replaces the best one only when strictly greater
BestType(scores) ==
    LET keys == {k \in 1..Len(QueryTypeOrder) :
                   QueryTypeOrder[k] \in DOMAIN scores}
        best == CHOOSE k \in keys :
                  /\ \A j \in keys : scores[QueryTypeOrder[j]]
                                       <= scores[QueryTypeOrder[k]]
                  /\ \A j \in keys : j < k =>
                        scores[QueryTypeOrder[j]]
                          < scores[QueryTypeOrder[k]]
    IN  QueryTypeOrder[best]

\* the cap forgotten: 0.5 + (max_score * 0.2)
Confidence_uncapped(max_score) == 5 + (max_score * 2)

\* 0.1 for each match instead of 0.2
Confidence_tenth(max_score) ==
    IF 5 + max_score < 9 THEN 5 + max_score ELSE 9

\* min(0.9, 0.5 + (max_score * 0.2)), in tenths
Confidence(max_score) ==
    IF 5 + (max_score * 2) < 9 THEN 5 + (max_score * 2) ELSE 9

\* no match reported as GENERAL with the confidence 0.3 instead of 0.5
SelectType_low_fallback(scores) ==
    IF DOMAIN scores = {}
    THEN [query_type |-> "general", confidence |-> 3]
    ELSE LET best_type == BestType(scores)
             max_score == scores[best_type]
         IN  [query_type |-> best_type, confidence |-> Confidence(max_score)]

\* no match reported as INVALID with no confidence instead of GENERAL
SelectType_invalid_fallback(scores) ==
    IF DOMAIN scores = {}
    THEN [query_type |-> "invalid", confidence |-> 0]
    ELSE LET best_type == BestType(scores)
             max_score == scores[best_type]
         IN  [query_type |-> best_type, confidence |-> Confidence(max_score)]

\* the result of the scoring once type_scores is filled
SelectType(scores) ==
    IF DOMAIN scores = {}
    THEN [query_type |-> "general", confidence |-> 5]
    ELSE LET best_type == BestType(scores)
             max_score == scores[best_type]
         IN  [query_type |-> best_type, confidence |-> Confidence(max_score)]

_determine_query_type(query_lower) == SelectType(TypeScores(query_lower))

\* re.findall(r'\b\w+\b', s): the maximal runs of word characters, in order
RECURSIVE WordsFrom(_, _)
WordsFrom(s, pos) ==
    LET wordAt == {i \in pos..Len(s) : IsWord(s[i])}
    IN  IF wordAt = {} THEN <<>>
        ELSE LET i    == Min(wordAt)
                 stop == {e \in i..Len(s) : ~IsWord(s[e])}
                 e    == IF stop = {} THEN Len(s) ELSE Min(stop) - 1
             IN  <<SubSeq(s, i, e)>> \o WordsFrom(s, e + 1)

stop_words ==
    { <<"t", "h", "e">>, <<"i", "s">>, <<"a", "t">>,
      <<"w", "h", "i", "c", "h">>, <<"o", "n">>, <<"a">>, <<"a", "n">>,
      <<"a", "n", "d">>, <<"o", "r">>, <<"b", "u", "t">>, <<"i", "n">>,
      <<"w", "i", "t", "h">>, <<"t", "o">>, <<"f", "o", "r">>, <<"o", "f">>,
      <<"a", "s">>, <<"b", "y">> }

keyword_limit == 10

\* the slice [:10] left out
_extract_keywords_unbounded(query_lower) ==
    LET words    == WordsFrom(query_lower, 1)
        Keep(w)  == w \notin stop_words /\ Len(w) > 2
    IN  SelectSeq(words, Keep)

_extract_keywords(query_lower) ==
    LET words    == WordsFrom(query_lower, 1)
        Keep(w)  == w \notin stop_words /\ Len(w) > 2
        keywords == SelectSeq(words, Keep)
    IN  SubSeq(keywords, 1, Min({keyword_limit, Len(keywords)}))

\* the first key, in dict order, whose pattern is found; None when none is
FirstMatch(q, order, patterns) ==
    LET hit == {k \in 1..Len(order) : Search(q, patterns[order[k]])}
    IN  IF hit = {} THEN "None" ELSE order[Min(hit)]

_extract_time_context(query_lower) ==
    FirstMatch(query_lower, TimeOrder, time_patterns)

\* the area named first in the text, wherever it stands in the table
_extract_location_context_leftmost(query_lower) ==
    LET at(k) == {i \in 1..Len(query_lower) :
                    MatchEnd(query_lower, i,
                             location_patterns[LocationOrder[k]]) # 0}
        hit   == {k \in 1..Len(LocationOrder) : at(k) # {}}
    IN  IF hit = {} THEN "None"
        ELSE LocationOrder[CHOOSE k \in hit :
                             \A j \in hit : Min(at(k)) <= Min(at(j))]

_extract_location_context(query_lower) ==
    FirstMatch(query_lower, LocationOrder, location_patterns)

\* the threshold 0.5 instead of 0.3
IsValid_half(query_type, confidence) ==
    query_type # "invalid" /\ confidence > 5

\* is_valid = query_type != QueryType.INVALID and confidence > 0.3
IsValid(query_type, confidence) == query_type # "invalid" /\ confidence > 3

analyze_query(query_text) ==
    LET query_lower == Lower(query_text)
        found       == _determine_query_type(query_lower)
    IN  [original_text    |-> query_text,
         cleaned_text     |-> query_text,
         query_type       |-> found.query_type,
         keywords         |-> _extract_keywords(query_lower),
         time_context     |-> _extract_time_context(query_lower),
         location_context |-> _extract_location_context(query_lower),
         confidence       |-> found.confidence,
         is_valid         |-> IsValid(found.query_type, found.confidence)]

----------------------------------------------------------------------------
(* BangaloreLocalAgent and AgentManager *)

AnyIn(query_lower, keys) == \E w \in keys : Contains(query_lower, w)

\* BangaloreLocalAgent._analyze_query_type: plain substring tests
_analyze_query_type(query_lower) ==
    IF AnyIn(query_lower,
             { <<"f", "o", "o", "d">>, <<"e", "a", "t">>,
               <<"b", "r", "e", "a", "k", "f", "a", "s", "t">>,
               <<"l", "u", "n", "c", "h">>, <<"d", "i", "n", "n", "e", "r">>,
               <<"r", "e", "s", "t", "a", "u", "r", "a", "n", "t">> })
    THEN "food"
    ELSE IF AnyIn(query_lower,
             { <<"t", "r", "a", "f", "f", "i", "c">>,
               <<"t", "r", "a", "v", "e", "l">>, <<"m", "e", "t", "r", "o">>,
               <<"t", "r", "a", "n", "s", "p", "o", "r", "t">>,
               <<"r", "o", "a", "d">> })
    THEN "traffic"
    ELSE IF AnyIn(query_lower,
             { <<"s", "l", "a", "n", "g">>, <<"m", "e", "a", "n">>,
               <<"m", "e", "a", "n", "i", "n", "g">>,
               <<"s", "c", "e", "n", "e", " ", "i", "l", "l", "a">>,
               <<"g", "u", "r", "u">>, <<"m", "a", "c", "h", "c", "h", "a">> })
    THEN "slang"
    ELSE IF AnyIn(query_lower,
             { <<"i", "t", "i", "n", "e", "r", "a", "r", "y">>,
               <<"p", "l", "a", "n">>, <<"d", "a", "y">>,
               <<"v", "i", "s", "i", "t">>, <<"p", "l", "a", "c", "e", "s">> })
    THEN "itinerary"
    ELSE IF AnyIn(query_lower,
             { <<"c", "u", "l", "t", "u", "r", "e">>,
               <<"e", "t", "i", "q", "u", "e", "t", "t", "e">>,
               <<"c", "u", "s", "t", "o", "m">>,
               <<"t", "r", "a", "d", "i", "t", "i", "o", "n">> })
    THEN "culture"
    ELSE "general"

NoResponse == [template |-> "None"]

\* BangaloreLocalAgent.process_query: the response is built from the template
\* of the type the agent finds, with the fixed confidence 0.9
agent_process_query(text) ==
    [template |-> _analyze_query_type(Lower(text)), confidence |-> 9]

\* What initialize_agent can raise: ValueError from _load_agent_config or
\* load_context, FileNotFoundError from load_context
InitFaults == {"None", "ValueError", "FileNotFoundError"}

\* the fault logged and swallowed: the call returns with no agent created
initialize_agent_swallow(fault, now) ==
    IF fault # "None"
    THEN [raised |-> FALSE, exc |-> "None",
          agent |-> agent, session_id |-> session_id]
    ELSE [raised |-> FALSE, exc |-> "None",
          agent |-> "BangaloreLocalAgent", session_id |-> now]

\* AgentManager.initialize_agent at clock reading now; session_id 0 is None
initialize_agent(fault, now) ==
    IF fault # "None"
    THEN [raised |-> TRUE, exc |-> fault,
          agent |-> agent, session_id |-> session_id]
    ELSE [raised |-> FALSE, exc |-> "None",
          agent |-> "BangaloreLocalAgent", session_id |-> now]

\* the response quotes the session the query was asked in
process_user_query_session(ag, query_text) ==
    IF ag = "None"
    THEN [raised |-> TRUE, exc |-> "RuntimeError", response |-> NoResponse]
    ELSE [raised |-> FALSE, exc |-> "None",
          response |-> [template   |-> _analyze_query_type(Lower(query_text)),
                        confidence |-> 9,
                        session_id |-> session_id]]

\* AgentManager.process_user_query on a manager whose agent is ag
process_user_query(ag, query_text) ==
    IF ag = "None"
    THEN [raised |-> TRUE, exc |-> "RuntimeError", response |-> NoResponse]
    ELSE [raised |-> FALSE, exc |-> "None",
          response |-> agent_process_query(query_text)]

----------------------------------------------------------------------------
(* Inputs *)

RECURSIVE Join(_, _, _)
Join(parts, n, sep) ==
    IF n = 0 THEN <<>>
    ELSE IF n = 1 THEN parts[1]
    ELSE Join(parts, n - 1, sep) \o sep \o parts[n]

\* a text of exactly max_length letters: one more character passes the limit
Filler == SubSeq([i \in 1..max_length |-> "a"], 1, max_length)

RawFragments ==
    { <<" ">>, <<"a">>, <<"\n">>, <<"{">>, Filler,
      <<"D", "a", "t", "a", ":">>,
      <<"<", "s", "c", "r", "i", "p", "t", ">">>,
      <<"<", "s", "c", "r", "i", "p", "t", ">", "\n">>,
      <<"<", "/", "S", "C", "R", "I", "P", "T", ">">> }

QueryWords ==
    { <<"h", "e", "l", "l", "o">>,
      <<"s", "t", "r", "e", "e", "t", " ", "f", "o", "o", "d">>,
      <<"M", "a", "l", "l", "e", "s", "h", "w", "a", "r", "a", "m">>,
      <<"b", "r", "e", "a", "k", "f", "a", "s", "t">>,
      <<"t", "r", "a", "f", "f", "i", "c">>,
      <<"S", "i", "l", "k", " ", "B", "o", "a", "r", "d">>,
      <<"w", "h", "a", "t">>,
      <<"g", "u", "r", "u">>,
      <<"p", "l", "a", "n">>,
      <<"t", "e", "m", "p", "l", "e">>,
      <<"7", "p", "m">> }

RawInputs ==
    {Join(f, Len(f), <<>>) :
       f \in UNION {[1..n -> RawFragments] : n \in 0..MaxFrags}}

Queries ==
    {Join(w, Len(w), <<" ">>) :
       w \in UNION {[1..n -> QueryWords] : n \in 1..MaxWords}}

\* Whole queries: each one exercises one corner of the validator or analyzer
Examples ==
    { \* a phrase pattern that swallows a keyword of the same pattern
      <<"w", "h", "a", "t", " ", "m", "e", "a", "n">>,
      \* a removed character between two spaces
      <<"a", " ", "<", " ", "b">>,
      \* a removed character before a space
      <<"{", " ", "a">>,
      \* a morning keyword and an evening clock time
      <<"b", "r", "e", "a", "k", "f", "a", "s", "t", " ", "a", "t", " ", "7", "p", "m">>,
      \* a clock time with a space before PM
      <<"T", "r", "a", "f", "f", "i", "c", " ", "a", "t", " ", "S", "i", "l", "k", " ", "B", "o", "a", "r", "d", " ", "a", "t", " ", "6", " ", "P", "M">>,
      \* an area name inside a longer word
      <<"w", "h", "i", "t", "e", "f", "i", "e", "l", "d", "s", " ", "t", "r", "i", "p">>,
      \* a removed character inside a forbidden URL scheme
      <<"d", "a", "{", "t", "a", ":", "x">>,
      \* more than ten keywords, stop-words and two-letter words
      <<"o", "n", "e", " ", "t", "w", "o", " ", "t", "h", "r", "e", "e", " ", "f", "o", "u", "r", " ", "f", "i", "v", "e", " ", "s", "i", "x", " ", "s", "e", "v", "e", "n", " ", "e", "i", "g", "h", "t", " ", "n", "i", "n", "e", " ", "t", "e", "n", " ", "e", "l", "e", "v", "e", "n", " ", "t", "w", "e", "l", "v", "e", " ", "t", "h", "e", " ", "i", "s", " ", "a", "t", " ", "a", "b">> }

Inputs == RawInputs \cup Queries \cup Examples

\* validate_query and analyze_query are pure: each is tabulated once over the
\* inputs, and process_query looks its argument up
Validated == [t \in Inputs |-> validate_query(t)]

Accepted == {t \in Inputs : Validated[t].is_valid}

Analyzed ==
    [c \in {Validated[t].cleaned_text : t \in Accepted} |-> analyze_query(c)]

----------------------------------------------------------------------------
(* QueryProcessor *)

NoCall == [active |-> FALSE]

\* The ProcessedQuery built when the input is rejected or a fault is caught
InvalidQuery(query_text, cleaned_text) ==
    [original_text    |-> query_text,
     cleaned_text     |-> cleaned_text,
     query_type       |-> "invalid",
     keywords         |-> <<>>,
     time_context     |-> "None",
     location_context |-> "None",
     confidence       |-> 0,
     is_valid         |-> FALSE]

\* the rejection reported with a fixed message instead of the validator's
RejectedResult_fixed_message(query_text, error_msg) ==
    [processed_query |-> InvalidQuery(query_text, <<>>),
     agent_response  |-> NoResponse,
     success         |-> FALSE,
     error_message   |-> "Query could not be understood"]

\* process_query, lines 273-289: the validator said no
RejectedResult(query_text, error_msg) ==
    [processed_query |-> InvalidQuery(query_text, <<>>),
     agent_response  |-> NoResponse,
     success         |-> FALSE,
     error_message   |-> error_msg]

\* process_query, lines 294-301
NotUnderstoodResult(processed_query) ==
    [processed_query |-> processed_query,
     agent_response  |-> NoResponse,
     success         |-> FALSE,
     error_message   |-> "Query could not be understood"]

\* process_query, lines 311-318
SuccessResult(processed_query, agent_response) ==
    [processed_query |-> processed_query,
     agent_response  |-> agent_response,
     success         |-> TRUE,
     error_message   |-> "None"]

\* f"Processing error: {str(e)}"
ProcessingError(exc) ==
    CASE exc = "ValueError"        -> "Processing error: ValueError"
      [] exc = "FileNotFoundError" -> "Processing error: FileNotFoundError"
      [] exc = "RuntimeError"      -> "Processing error: RuntimeError"

\* process_query, lines 320-337: the except clause
ExceptResult(query_text, cleaned_text, exc) ==
    [processed_query |-> InvalidQuery(query_text, cleaned_text),
     agent_response  |-> NoResponse,
     success         |-> FALSE,
     error_message   |-> ProcessingError(exc)]

\* "except ValueError": a narrower except clause
Caught_value_error(exc) == exc = "ValueError"

\* "except Exception" catches every exception the pipeline can raise
Caught(exc) == exc \in {"ValueError", "FileNotFoundError", "RuntimeError"}

NoResult == [success |-> FALSE, error_message |-> "raised"]

\* The call returns result to its caller
Returns(query_text, result) ==
    call' = [active |-> TRUE, query_text |-> query_text, exc |-> "None",
             raised |-> FALSE, result |-> result]

\* An exception is raised inside the try block: the except clause returns a
\* result when it catches it, and the exception reaches the caller otherwise
Raises(query_text, cleaned_text, exc) ==
    IF Caught(exc)
    THEN call' = [active |-> TRUE, query_text |-> query_text, exc |-> exc,
                  raised |-> FALSE,
                  result |-> ExceptResult(query_text, cleaned_text, exc)]
    ELSE call' = [active |-> TRUE, query_text |-> query_text, exc |-> exc,
                  raised |-> TRUE, result |-> NoResult]

\* QueryProcessor.process_query(query_text).  When the agent has to be
\* initialised, the outcome of the initialisation (fault) and the clock it
\* reads (now) come from outside.
process_query(query_text) ==
    /\ call = NoCall
    /\ UNCHANGED <<type_scores, typed, threads, others>>
    /\ LET v == Validated[query_text]
       IN  IF ~v.is_valid
           THEN /\ Returns(query_text,
                           RejectedResult(query_text, v.error_message))
                /\ UNCHANGED <<agent_initialized, agent, session_id>>
           ELSE
           LET processed_query == Analyzed[v.cleaned_text]
           IN  IF ~processed_query.is_valid
               THEN /\ Returns(query_text,
                               NotUnderstoodResult(processed_query))
                    /\ UNCHANGED <<agent_initialized, agent, session_id>>
               ELSE
               IF agent_initialized
               THEN LET answer == process_user_query(agent, v.cleaned_text)
                    IN  /\ UNCHANGED <<agent_initialized, agent, session_id>>
                        /\ IF answer.raised
                           THEN Raises(query_text, v.cleaned_text, answer.exc)
                           ELSE Returns(query_text,
                                  SuccessResult(processed_query,
                                                answer.response))
               ELSE
               \E fault \in InitFaults, now \in 1..MaxClock :
                 LET init == initialize_agent(fault, now)
                 IN  IF init.raised
                     THEN /\ Raises(query_text, v.cleaned_text, init.exc)
                          /\ UNCHANGED <<agent_initialized, agent, session_id>>
                     ELSE
                     LET answer == process_user_query(init.agent,
                                                      v.cleaned_text)
                     IN  /\ agent_initialized' = TRUE
                         /\ agent' = init.agent
                         /\ session_id' = init.session_id
                         /\ IF answer.raised
                            THEN Raises(query_text, v.cleaned_text, answer.exc)
                            ELSE Returns(query_text,
                                   SuccessResult(processed_query,
                                                 answer.response))

\* The caller takes the result; the processor keeps no reference to it
Return ==
    /\ call # NoCall
    /\ call' = NoCall
    /\ UNCHANGED <<agent_initialized, agent, session_id, type_scores, typed,
                   threads, others>>

----------------------------------------------------------------------------
(* The processor *)

NoScores == [t \in {} |-> 0]

\* the callers that may be inside process_query at the same time
Threads == {1, 2}

\* a caller that is not inside process_query
Idle == [pc |-> "idle"]

\* Python's None, where the other values of the field are records
None == [none |-> TRUE]

\* no call made yet on the object
NotCalled == [called |-> FALSE]

\* no process_query call is being followed
NoPipeline == [stage |-> "Idle"]

\* no file at product_file_path
NoFile == [exists |-> FALSE]

\* IntegrationManager.__init__: no component yet, nothing initialised
IntegrationManager ==
    [context_manager |-> FALSE, agent_manager |-> FALSE,
     query_processor |-> FALSE, context |-> None, agent |-> FALSE,
     initialization_errors |-> <<>>, system_initialized |-> FALSE,
     last |-> NotCalled]

Init ==
    /\ agent_initialized = FALSE
    /\ agent = "None"
    /\ session_id = 0
    /\ call = NoCall
    /\ type_scores = NoScores
    /\ typed = SelectType(NoScores)
    /\ threads = [th \in Threads |-> Idle]
    /\ pipeline = NoPipeline
    /\ analysis = <<>>
    /\ product_file = NoFile
    /\ _cached_context = None
    /\ _last_check_time = None
    /\ loaded = NotCalled
    /\ _error_history = <<>>
    /\ returned = NotCalled
    /\ integration = IntegrationManager

Next ==
    \/ \E query_text \in Inputs : process_query(query_text)
    \/ Return

Spec == Init /\ [][Next]_vars

----------------------------------------------------------------------------
(* The classifier on its own: _determine_query_type followed match by match.
   Every re.findall match adds one to the score of its query type, and the
   type and confidence are those the function returns for the scores so far. *)

ScoreMatch(query_type) ==
    /\ query_type \in DOMAIN type_scores => type_scores[query_type] < MaxScore
    /\ type_scores' =
         [t \in DOMAIN type_scores \cup {query_type} |->
            IF t = query_type
            THEN (IF t \in DOMAIN type_scores THEN type_scores[t] + 1 ELSE 1)
            ELSE type_scores[t]]
    /\ typed' = SelectType(type_scores')
    /\ UNCHANGED <<agent_initialized, agent, session_id, call, threads, others>>

ClassifierNext == \E query_type \in Range(QueryTypeOrder) : ScoreMatch(query_type)

ClassifierSpec == Init /\ [][ClassifierNext]_vars

----------------------------------------------------------------------------
(* Several callers inside process_query of one processor.  A step is one
   access to the processor's shared fields: the test of _agent_initialized,
   the call of initialize_agent, the assignment of _agent_initialized and the
   call of process_user_query.  Validation and analysis work on the caller's
   own locals and on tables nothing writes to. *)

\* the texts the concurrent callers pass: too short, no intent matched, an
\* intent matched, nothing left after cleaning
CallerInputs ==
    { <<"a">>, <<"h", "e", "l", "l", "o">>,
      <<"s", "t", "r", "e", "e", "t", " ", "f", "o", "o", "d">>,
      <<"{", "{">> }

\* a caller inside the try block, with the locals it holds
Running(pc, query_text, cleaned_text) ==
    [pc |-> pc, query_text |-> query_text, cleaned_text |-> cleaned_text]

\* a caller whose call is over
Finished(query_text, exc, raised, result) ==
    [pc |-> "done", query_text |-> query_text, exc |-> exc, raised |-> raised,
     result |-> result]

\* an exception inside the try block of a caller
Failed(query_text, cleaned_text, exc) ==
    IF Caught(exc)
    THEN Finished(query_text, exc, FALSE,
                  ExceptResult(query_text, cleaned_text, exc))
    ELSE Finished(query_text, exc, TRUE, NoResult)

\* lines 267-301: validate and analyze
Begin(th, query_text) ==
    /\ threads[th] = Idle
    /\ LET v == Validated[query_text]
       IN  threads' = [threads EXCEPT ![th] =
             IF ~v.is_valid
             THEN Finished(query_text, "None", FALSE,
                           RejectedResult(query_text, v.error_message))
             ELSE IF ~Analyzed[v.cleaned_text].is_valid
             THEN Finished(query_text, "None", FALSE,
                           NotUnderstoodResult(Analyzed[v.cleaned_text]))
             ELSE Running("check", query_text, v.cleaned_text)]
    /\ UNCHANGED <<agent_initialized, agent, session_id, call, type_scores,
                   typed, others>>

\* line 304: if not self._agent_initialized
CheckInitialized(th) ==
    /\ threads[th].pc = "check"
    /\ threads' = [threads EXCEPT ![th].pc =
                     IF agent_initialized THEN "query" ELSE "initialize"]
    /\ UNCHANGED <<agent_initialized, agent, session_id, call, type_scores,
                   typed, others>>

\* line 305: self.agent_manager.initialize_agent()
InitializeAgent(th) ==
    /\ threads[th].pc = "initialize"
    /\ \E fault \in InitFaults, now \in 1..MaxClock :
         LET init == initialize_agent(fault, now)
         IN  IF init.raised
             THEN /\ threads' = [threads EXCEPT ![th] =
                       Failed(threads[th].query_text,
                              threads[th].cleaned_text, init.exc)]
                  /\ UNCHANGED <<agent, session_id>>
             ELSE /\ threads' = [threads EXCEPT ![th].pc = "assign"]
                  /\ agent' = init.agent
                  /\ session_id' = init.session_id
    /\ UNCHANGED <<agent_initialized, call, type_scores, typed, others>>

\* line 306: self._agent_initialized = True
SetInitialized(th) ==
    /\ threads[th].pc = "assign"
    /\ agent_initialized' = TRUE
    /\ threads' = [threads EXCEPT ![th].pc = "query"]
    /\ UNCHANGED <<agent, session_id, call, type_scores, typed, others>>

\* lines 309-318: ask the agent and build the result
AskAgent(th) ==
    /\ threads[th].pc = "query"
    /\ LET query_text   == threads[th].query_text
           cleaned_text == threads[th].cleaned_text
           answer       == process_user_query(agent, cleaned_text)
       IN  threads' = [threads EXCEPT ![th] =
             IF answer.raised
             THEN Failed(query_text, cleaned_text, answer.exc)
             ELSE Finished(query_text, "None", FALSE,
                           SuccessResult(Analyzed[cleaned_text],
                                         answer.response))]
    /\ UNCHANGED <<agent_initialized, agent, session_id, call, type_scores,
                   typed, others>>

\* The caller takes its result and may call again
TakeResult(th) ==
    /\ threads[th].pc = "done"
    /\ threads' = [threads EXCEPT ![th] = Idle]
    /\ UNCHANGED <<agent_initialized, agent, session_id, call, type_scores,
                   typed, others>>

ConcurrentNext ==
    \E th \in Threads :
      \/ \E query_text \in CallerInputs : Begin(th, query_text)
      \/ CheckInitialized(th)
      \/ InitializeAgent(th)
      \/ SetInitialized(th)
      \/ AskAgent(th)
      \/ TakeResult(th)

ConcurrentSpec == Init /\ [][ConcurrentNext]_vars

----------------------------------------------------------------------------
(* Properties of process_query and of the classifier *)

\* the call the caller is looking at returned a result
Returned == call.active /\ ~call.raised

\* the validator accepts the text of the call
AcceptedCall == call.active /\ Validated[call.query_text].is_valid

\* C1: for every input text whose trimmed length is below 2 or whose raw
\* length is above 500, process_query returns success = false together with
\* a non-empty error message.
C1_LengthLimitsFail ==
    (call.active /\ (\/ Len(Strip(call.query_text)) < 2
                     \/ Len(call.query_text) > 500))
      => /\ ~call.raised
         /\ call.result.success = FALSE
         /\ call.result.error_message \notin {"", "None"}

\* a text of more than 500 characters whose trimmed length is within the limit
C1_Witness ==
    /\ Returned
    /\ Len(call.query_text) > 500
    /\ Len(Strip(call.query_text)) \in 2..500
    /\ call.result.success = FALSE
    /\ call.result.error_message = "Query too long (maximum 500 characters)"

\* the text holds an opening script tag and, after it, a closing script tag
HasScriptTag(q) ==
    \E i \in 1..Len(q) :
      /\ MatchAt(q, i, <<"<", "s", "c", "r", "i", "p", "t">>)
      /\ \E j \in (i + 7)..Len(q) :
           /\ q[j] = ">"
           /\ \E k \in (j + 1)..Len(q) :
                MatchAt(q, k, <<"<", "/", "s", "c", "r", "i", "p", "t", ">">>)

HasDenylisted(query_text) ==
    LET q == Lower(query_text)
    IN  \/ HasScriptTag(q)
        \/ Contains(q, <<"j", "a", "v", "a", "s", "c", "r", "i", "p", "t", ":">>)
        \/ Contains(q, <<"d", "a", "t", "a", ":">>)
        \/ Contains(q, <<"v", "b", "s", "c", "r", "i", "p", "t", ":">>)

\* C2: every input that contains a denylisted substring (a script tag,
\* 'javascript:', 'data:' or 'vbscript:', in any letter case) is rejected by
\* the validator and process_query returns success = false for it; it is
\* never sanitized and classified.
C2_DenylistRejected ==
    (call.active /\ HasDenylisted(call.query_text))
      => /\ ~Validated[call.query_text].is_valid
         /\ ~call.raised
         /\ call.result.success = FALSE
         /\ call.result.processed_query.cleaned_text = <<>>

\* C3: whenever the validator rejects the input, process_query returns
\* success = false, a processed query with intent INVALID, confidence 0, no
\* keywords, no time and location slot and is_valid false, no agent response,
\* and the validator's rejection reason as the error message.
C3_RejectedResult ==
    (call.active /\ ~Validated[call.query_text].is_valid)
      => /\ ~call.raised
         /\ call.result.success = FALSE
         /\ call.result.agent_response = NoResponse
         /\ call.result.error_message
              = Validated[call.query_text].error_message
         /\ call.result.processed_query
              = [original_text    |-> call.query_text,
                 cleaned_text     |-> <<>>,
                 query_type       |-> "invalid",
                 keywords         |-> <<>>,
                 time_context     |-> "None",
                 location_context |-> "None",
                 confidence       |-> 0,
                 is_valid         |-> FALSE]

\* a denylisted input of legal length comes back with the validator's reason
C3_Witness ==
    /\ Returned
    /\ ~Validated[call.query_text].is_valid
    /\ Len(call.query_text) \in 2..500
    /\ call.result.success = FALSE
    /\ call.result.error_message = "Query contains invalid content"

\* C4: process_query never raises to its caller, on any input and in any
\* processor state: a fault inside the pipeline (a failed initialisation of
\* the agent, a failure of the agent's query handling) comes back as a result
\* with success = false and a "Processing error" message.
C4_NeverRaises ==
    call.active
      => /\ ~call.raised
         /\ call.exc # "None"
              => /\ call.result.success = FALSE
                 /\ call.result.agent_response = NoResponse
                 /\ call.result.error_message
                      \in {"Processing error: ValueError",
                           "Processing error: FileNotFoundError",
                           "Processing error: RuntimeError"}

\* the agent's initialisation failed on a missing knowledge file and the
\* caller got a result
C4_Witness ==
    /\ Returned
    /\ call.exc = "FileNotFoundError"
    /\ ~agent_initialized
    /\ call.result.success = FALSE

\* C5: for every input the validator accepts, success = true if and only if
\* the processed query of the result is valid, that is its intent is not
\* INVALID and its confidence is above 0.3.
C5_SuccessIffValid ==
    (AcceptedCall /\ ~call.raised)
      => /\ call.result.success
              <=> (/\ call.result.processed_query.query_type # "invalid"
                   /\ call.result.processed_query.confidence > 3)
         /\ call.result.success <=> call.result.processed_query.is_valid

\* an accepted text with the fallback confidence 0.5 is answered successfully
C5_Witness ==
    /\ AcceptedCall
    /\ Returned
    /\ call.result.success
    /\ call.result.processed_query.confidence = 5

\* C6 as stated: a result carries intent INVALID only when the validator
\* rejected the input; no result for an accepted input has intent INVALID.
C6_InvalidOnlyWhenRejected ==
    (Returned /\ call.result.processed_query.query_type = "invalid")
      => ~Validated[call.query_text].is_valid

\* C6 amended: a result carries intent INVALID only when the validator
\* rejected the input or process_query caught a fault (the result then has a
\* "Processing error" message); the classifier itself never yields INVALID.
C6_InvalidOnlyWhenRejectedOrFault ==
    /\ (Returned /\ call.result.processed_query.query_type = "invalid")
         => \/ ~Validated[call.query_text].is_valid
            \/ /\ call.exc # "None"
               /\ call.result.error_message
                    \in {"Processing error: ValueError",
                         "Processing error: FileNotFoundError",
                         "Processing error: RuntimeError"}
    /\ AcceptedCall
         => Analyzed[Validated[call.query_text].cleaned_text].query_type
              # "invalid"

\* an accepted text comes back INVALID because the agent could not be
\* initialised
C6_Witness ==
    /\ AcceptedCall
    /\ Returned
    /\ call.exc # "None"
    /\ call.result.processed_query.query_type = "invalid"

\* C7: in every result returned by process_query the confidence of the
\* processed query lies between 0.0 and 0.9 inclusive.
C7_ConfidenceBound ==
    Returned
      => /\ call.result.processed_query.confidence >= 0
         /\ call.result.processed_query.confidence <= 9

\* a text with three or more matches of its intent comes back with 0.9
C7_Witness ==
    /\ AcceptedCall
    /\ Returned
    /\ call.result.success
    /\ call.result.processed_query.confidence = 9
    /\ Score(Lower(call.result.processed_query.cleaned_text),
             call.result.processed_query.query_type) >= 3

\* no pattern of any of the five intents is found in the text
NoPatternMatches(q) ==
    \A t \in Range(QueryTypeOrder) :
      \A k \in 1..Len(query_patterns[t]) : ~Search(q, query_patterns[t][k])

\* C8: for every validated text in which no pattern of the five intents
\* matches, classification yields GENERAL with confidence exactly 0.5.
C8_FallbackGeneral ==
    (AcceptedCall
       /\ NoPatternMatches(Lower(Validated[call.query_text].cleaned_text)))
      => /\ Analyzed[Validated[call.query_text].cleaned_text].query_type
              = "general"
         /\ Analyzed[Validated[call.query_text].cleaned_text].confidence = 5
         /\ (Returned /\ call.exc = "None")
              => /\ call.result.processed_query.query_type = "general"
                 /\ call.result.processed_query.confidence = 5

\* a text of several words, none of them matching, is answered as GENERAL
C8_Witness ==
    /\ AcceptedCall
    /\ Returned
    /\ NoPatternMatches(Lower(Validated[call.query_text].cleaned_text))
    /\ Len(call.result.processed_query.keywords) >= 2
    /\ call.result.success
    /\ call.result.processed_query.query_type = "general"

\* position of a query type in the order of the pattern table
Priority(query_type) ==
    CHOOSE k \in 1..Len(QueryTypeOrder) : QueryTypeOrder[k] = query_type

\* C9: when at least one intent has a non-zero score the classifier returns
\* the intent with the highest score, and among several intents with the
\* highest score the first in the order Food, Traffic, Slang, Itinerary,
\* Culture, for every combination of scores.
C9_HighestScoreFirstWins ==
    (DOMAIN type_scores # {})
      => /\ typed.query_type \in DOMAIN type_scores
         /\ \A t \in DOMAIN type_scores :
              /\ type_scores[t] <= type_scores[typed.query_type]
              /\ type_scores[t] = type_scores[typed.query_type]
                   => Priority(typed.query_type) <= Priority(t)

\* Traffic and Culture share the highest score, Food has a lower one
C9_Witness ==
    /\ DOMAIN type_scores = {"food", "traffic", "culture"}
    /\ type_scores["food"] = 1
    /\ type_scores["traffic"] = 2
    /\ type_scores["culture"] = 2
    /\ typed.query_type = "traffic"

\* the highest score of the dict, 0 for the empty dict
TopScore(scores) ==
    IF DOMAIN scores = {} THEN 0
    ELSE CHOOSE m \in {scores[t] : t \in DOMAIN scores} :
           \A t \in DOMAIN scores : scores[t] <= m

\* C10: when some intent matches, the confidence is min(0.9, 0.5 + 0.2 * the
\* winning score): 0.7 for a score of 1, 0.9 for a score of 2 or more, never
\* below 0.5, never above 0.9, and it never decreases when the winning score
\* grows.
C10_ConfidenceFormula ==
    /\ [](DOMAIN type_scores # {}
            => /\ typed.confidence
                    = (IF 5 + 2 * TopScore(type_scores) <= 9
                       THEN 5 + 2 * TopScore(type_scores) ELSE 9)
               /\ typed.confidence >= 5
               /\ typed.confidence <= 9
               /\ TopScore(type_scores) = 1 => typed.confidence = 7
               /\ TopScore(type_scores) >= 2 => typed.confidence = 9)
    /\ [][TopScore(type_scores') >= TopScore(type_scores)
            => typed'.confidence >= typed.confidence]_vars

\* the winning score is 3 and the confidence stays at the cap
C10_Witness ==
    /\ DOMAIN type_scores # {}
    /\ TopScore(type_scores) = 3
    /\ typed.confidence = 9

\* the number of positions of q at which the pattern matches, a match that
\* lies inside another match of the same pattern included
MatchPositions(q, alts) ==
    Cardinality({i \in 1..Len(q) : MatchEnd(q, i, alts) # 0})

RECURSIVE SumPositions(_, _, _)
SumPositions(q, patterns, n) ==
    IF n = 0 THEN 0
    ELSE SumPositions(q, patterns, n - 1) + MatchPositions(q, patterns[n])

\* C11: an intent's score is the count of all matches of all patterns in that
\* intent's table, with overlapping matches counted independently (a keyword
\* lying inside a longer phrase match still counts on its own), and one word
\* may add to the scores of several intents.
C11_ScoreCountsOverlapping ==
    AcceptedCall
      => LET q == Lower(Validated[call.query_text].cleaned_text)
         IN  \A t \in Range(QueryTypeOrder) :
               Score(q, t)
                 = SumPositions(q, query_patterns[t], Len(query_patterns[t]))

----------------------------------------------------------------------------
(* Properties of concurrent and repeated calls *)

\* caller th holds the result of a call that returned
HasResult(th) == threads[th].pc = "done" /\ ~threads[th].raised

\* what a result shows, the elapsed time left aside
Shown(th) ==
    LET r == threads[th].result
    IN  [success          |-> r.success,
         query_type       |-> r.processed_query.query_type,
         confidence       |-> r.processed_query.confidence,
         keywords         |-> r.processed_query.keywords,
         time_context     |-> r.processed_query.time_context,
         location_context |-> r.processed_query.location_context,
         agent_response   |-> r.agent_response]

----------------------------------------------------------------------------
(* Properties of the validator's cleaning and of the slot extraction *)

\* C13: sanitization is idempotent: for every text t, applying the
\* validator's cleaning step to an already cleaned text returns it unchanged,
\* clean(clean(t)) = clean(t).
C13_CleanIdempotent ==
    call.active
      => _clean_query(_clean_query(call.query_text))
           = _clean_query(call.query_text)

\* the text has a value: "" counts as none
Populated(text) == text # <<>>

\* C14: for every input, the outcome of validate_query has exactly one of the
\* two populated: an accepted input has a non-empty sanitized text and an
\* empty rejection reason, a rejected input has a non-empty rejection reason
\* and an empty sanitized text.
C14_ExactlyOnePopulated ==
    call.active
      => LET v == Validated[call.query_text]
         IN  /\ v.is_valid
                  => Populated(v.cleaned_text) /\ v.error_message = ""
             /\ ~v.is_valid
                  => ~Populated(v.cleaned_text) /\ v.error_message # ""

\* C15: for every accepted input, the sanitized text contains none of the
\* characters '<', '>', '{', '}', has no leading or trailing whitespace, and
\* contains no run of two or more whitespace characters.
C15_SanitizedShape ==
    AcceptedCall
      => LET c == Validated[call.query_text].cleaned_text
         IN  /\ \A i \in 1..Len(c) : c[i] \notin {"<", ">", "{", "}"}
             /\ Len(c) > 0 => ~IsSpace(c[1]) /\ ~IsSpace(c[Len(c)])
             /\ \A i \in 1..(Len(c) - 1) : ~(IsSpace(c[i]) /\ IsSpace(c[i + 1]))

\* the text holds a clock time: digits followed by "pm"
HasPmTime(q) ==
    \E i \in 1..Len(q) :
      /\ q[i] \in Digits
      /\ MatchAt(q, i + 1, <<"p", "m">>)
      /\ WordBoundary(q, i + 2)

\* the text holds a clock time: digits followed by "am"
HasAmTime(q) ==
    \E i \in 1..Len(q) :
      /\ q[i] \in Digits
      /\ MatchAt(q, i + 1, <<"a", "m">>)
      /\ WordBoundary(q, i + 2)

\* the word w occurs in q between word boundaries
HasWord(q, w) ==
    \E i \in 1..Len(q) :
      /\ MatchAt(q, i, w)
      /\ WordBoundary(q, i - 1) /\ WordBoundary(q, i + Len(w) - 1)

\* one of the period keywords of the three time patterns occurs in the text
HasPeriodKeyword(q) ==
    \E w \in { <<"m", "o", "r", "n", "i", "n", "g">>,
               <<"b", "r", "e", "a", "k", "f", "a", "s", "t">>,
               <<"e", "a", "r", "l", "y">>,
               <<"a", "f", "t", "e", "r", "n", "o", "o", "n">>,
               <<"l", "u", "n", "c", "h">>, <<"n", "o", "o", "n">>,
               <<"e", "v", "e", "n", "i", "n", "g">>,
               <<"d", "i", "n", "n", "e", "r">>,
               <<"n", "i", "g", "h", "t">> } : HasWord(q, w)

\* C16: time extraction applies its rules in a fixed priority order in which
\* an explicit '<number> pm' time is checked before an explicit '<number> am'
\* time and both before the period keywords, and the first matching rule
\* wins: a text with an evening clock time and a morning keyword ('breakfast
\* at 7pm') yields Evening; a text matching no rule yields no time slot.
C16_ClockTimeBeforeKeywords ==
    AcceptedCall
      => LET c    == Validated[call.query_text].cleaned_text
             q    == Lower(c)
             slot == Analyzed[c].time_context
         IN  /\ (\E h \in {"6", "7", "8", "9"} :
                   HasWord(q, <<h, "p", "m">>)) => slot = "evening"
             /\ (~HasPmTime(q) /\ \E h \in {"6", "7", "8", "9"} :
                   HasWord(q, <<h, "a", "m">>)) => slot = "morning"
             /\ (~HasPmTime(q) /\ ~HasAmTime(q) /\ ~HasPeriodKeyword(q))
                  => slot = "None"

\* C17: a query that names the Silk Board junction, the word traffic, and an
\* evening clock time written with a space between the hour and PM (as in
\* 'Traffic at Silk Board at 6 PM') is classified with intent Traffic, time
\* slot Evening and location slot 'silk_board'.
C17_SilkBoardEvening ==
    AcceptedCall
      => LET c == Validated[call.query_text].cleaned_text
             q == Lower(c)
         IN  (/\ HasWord(q, <<"s", "i", "l", "k", " ", "b", "o", "a", "r", "d">>)
              /\ HasWord(q, <<"t", "r", "a", "f", "f", "i", "c">>)
              /\ \E h \in {"6", "7", "8", "9"} : HasWord(q, <<h, " ", "p", "m">>))
               => /\ Analyzed[c].query_type = "traffic"
                  /\ Analyzed[c].time_context = "evening"
                  /\ Analyzed[c].location_context = "silk_board"

\* the name of a gazetteer entry as it is written in a text
AreaName(entry) == location_patterns[entry][1].pre

\* the first entry of the gazetteer, in its declared order, that Names(k)
\* holds for; no entry when it holds for none
FirstEntry(Names(_)) ==
    LET hit == {k \in 1..Len(LocationOrder) : Names(k)}
    IN  IF hit = {} THEN "None"
        ELSE LocationOrder[CHOOSE k \in hit : \A j \in hit : k <= j]

\* C18 as stated: the location slot is the first entry of the closed
\* gazetteer, in its declared order (malleshwaram, basavanagudi, koramangala,
\* indiranagar, whitefield, electronic_city, silk_board), whose name occurs in
\* the text as a case-insensitive substring, whatever the position of the
\* names in the text; when no gazetteer name occurs the location slot is
\* absent.
C18_FirstSubstringWins ==
    AcceptedCall
      => LET c == Validated[call.query_text].cleaned_text
             Names(k) == Contains(Lower(c), AreaName(LocationOrder[k]))
         IN  Analyzed[c].location_context = FirstEntry(Names)

\* C18 amended: the location slot is the first entry of the gazetteer, in its
\* declared order, whose name occurs in the text as a whole word (between
\* word boundaries), in any letter case and whatever the position of the
\* names in the text; when no name occurs as a whole word the slot is absent.
C18_FirstWholeWordWins ==
    /\ LocationOrder
         = <<"malleshwaram", "basavanagudi", "koramangala", "indiranagar",
             "whitefield", "electronic_city", "silk_board">>
    /\ AcceptedCall
         => LET c == Validated[call.query_text].cleaned_text
                Names(k) == HasWord(Lower(c), AreaName(LocationOrder[k]))
            IN  /\ Analyzed[c].location_context = FirstEntry(Names)
                /\ (Returned /\ call.exc = "None")
                     => call.result.processed_query.location_context
                          = FirstEntry(Names)

\* the text names Silk Board before Malleshwaram and the slot is malleshwaram
C18_Witness ==
    /\ AcceptedCall
    /\ Returned
    /\ call.result.success
    /\ LET q == Lower(call.result.processed_query.cleaned_text)
       IN  \E i, j \in 1..Len(q) :
             /\ i < j
             /\ MatchAt(q, i, AreaName("silk_board"))
             /\ MatchAt(q, j, AreaName("malleshwaram"))
    /\ call.result.processed_query.location_context = "malleshwaram"

\* the first n entries of a list, all of them when it has fewer
FirstOf(list, n) == SubSeq(list, 1, IF Len(list) < n THEN Len(list) ELSE n)

\* the words of the lower-cased text, in their order of occurrence
WordsOf(text) == WordsFrom(Lower(text), 1)

\* C19 as stated: in every processed query, the keyword list has at most 10
\* entries, contains no stop-word, and lists the remaining words of the text
\* in their order of occurrence (the first 10 of them).
C19_KeywordsAllButStopWords ==
    Returned
      => LET pq        == call.result.processed_query
             NotStop(w) == w \notin stop_words
         IN  /\ Len(pq.keywords) <= 10
             /\ \A k \in 1..Len(pq.keywords) : pq.keywords[k] \notin stop_words
             /\ pq.keywords
                  = FirstOf(SelectSeq(WordsOf(pq.cleaned_text), NotStop), 10)

\* C19 amended: in every processed query the keyword list has at most 10
\* entries and contains no stop-word and no word of one or two characters;
\* in a processed query built by the analyzer it lists, lower-cased and in
\* their order of occurrence, the first 10 words of the text that are longer
\* than two characters and are not stop-words; in the processed query of a
\* rejected input or of a caught fault it is empty.
C19_KeywordsLongNonStopWords ==
    Returned
      => LET pq        == call.result.processed_query
             Eligible(w) == w \notin stop_words /\ Len(w) > 2
         IN  /\ Len(pq.keywords) <= 10
             /\ \A k \in 1..Len(pq.keywords) :
                  /\ pq.keywords[k] \notin stop_words
                  /\ Len(pq.keywords[k]) > 2
             /\ pq.query_type # "invalid"
                  => pq.keywords
                       = FirstOf(SelectSeq(WordsOf(pq.cleaned_text), Eligible),
                                 10)
             /\ pq.query_type = "invalid" => pq.keywords = <<>>

\* a text with stop-words, two-letter words and twelve other words comes back
\* with its first ten keywords
C19_Witness ==
    /\ AcceptedCall
    /\ Returned
    /\ call.result.success
    /\ Len(call.result.processed_query.keywords) = 10
    /\ LET words == WordsOf(call.result.processed_query.cleaned_text)
       IN  /\ Len(words) >= 16
           /\ \E k \in 1..Len(words) : words[k] \in stop_words
           /\ \E k \in 1..Len(words) : words[k] \notin stop_words
                                         /\ Len(words[k]) <= 2
           /\ call.result.processed_query.keywords[10] = words[10]

\* the results process_query(query_text) can return to a caller that is alone
\* on the processor: the one answer the text gets, or the result of a failed
\* initialisation of the agent
AloneResults(query_text) ==
    LET v == Validated[query_text]
        c == v.cleaned_text
    IN  IF ~v.is_valid
        THEN {RejectedResult(query_text, v.error_message)}
        ELSE IF ~Analyzed[c].is_valid
        THEN {NotUnderstoodResult(Analyzed[c])}
        ELSE {SuccessResult(Analyzed[c], agent_process_query(c))}
               \cup {ExceptResult(query_text, c, fault) :
                       fault \in InitFaults \ {"None"}}

\* C20: process_query is safe to invoke concurrently on the same processor:
\* invocations share no mutable state, so under every interleaving of two
\* calls each call returns what it would return when run alone, and the
\* agent is initialised at most once in total.
C20_ConcurrentCallsSafe ==
    /\ [](\A th \in Threads :
            threads[th].pc = "done"
              => /\ ~threads[th].raised
                 /\ threads[th].result \in AloneResults(threads[th].query_text))
    /\ [][\A th \in Threads :
            (threads[th].pc = "initialize" /\ threads'[th].pc = "assign")
              => agent = "None"]_vars

----------------------------------------------------------------------------
(* The sanitized text against the validator's own denylist *)

\* the substrings the validation test looks for in the lowered cleaned text
DangerousSubstrings ==
    { <<"<", "s", "c", "r", "i", "p", "t">>,
      <<"j", "a", "v", "a", "s", "c", "r", "i", "p", "t", ":">>,
      <<"v", "b", "s", "c", "r", "i", "p", "t", ":">>,
      <<"d", "a", "t", "a", ":">> }

\* C26: for every input the validator accepts, the sanitized text does not
\* contain any of the dangerous substrings 'javascript:', 'vbscript:', 'data:'
\* or '<script' in any letter case: stripping characters during cleaning
\* cannot assemble a denylisted substring.
C26_SanitizedHasNoDangerousSubstring ==
    AcceptedCall
      => \A pattern \in DangerousSubstrings :
           ~Contains(Lower(Validated[call.query_text].cleaned_text), pattern)

----------------------------------------------------------------------------
(* The low-confidence outcome of process_query *)

\* C28: for every input the validator accepts, the analyzer's result is valid
\* (intent not INVALID and confidence at least 0.5), so the low-confidence
\* outcome of process_query, success = false with the message 'Query could
\* not be understood', is unreachable.
C28_AcceptedIsUnderstood ==
    /\ AcceptedCall
         => LET processed_query ==
                  Analyzed[Validated[call.query_text].cleaned_text]
            IN  /\ processed_query.is_valid
                /\ processed_query.query_type # "invalid"
                /\ processed_query.confidence >= 5
                /\ call.result # NotUnderstoodResult(processed_query)
    /\ Returned
         => call.result.error_message # "Query could not be understood"

\* an accepted text that sanitizing leaves empty is still analysed as valid,
\* with the lowest confidence the analyzer gives, and is answered
C28_Witness ==
    /\ AcceptedCall
    /\ Returned
    /\ Validated[call.query_text].cleaned_text = <<>>
    /\ Analyzed[<<>>].confidence = 5
    /\ call.result.success
    /\ call.result.error_message = "None"

----------------------------------------------------------------------------
(* One AgentManager used both directly and through a QueryProcessor built on
   it.  QueryProcessor.__init__ keeps the manager it is given and starts with
   _agent_initialized = False, whatever the manager has already done. *)

\* the texts asked in a session
SessionInputs == CallerInputs \cup Examples

\* manager.initialize_agent() called by the owner of the manager: on a fault
\* the exception reaches the owner and the manager keeps what it had
ManagerInitialize ==
    /\ call = NoCall
    /\ \E fault \in InitFaults, now \in 1..MaxClock :
         LET init == initialize_agent(fault, now)
         IN  /\ agent' = init.agent
             /\ session_id' = init.session_id
    /\ UNCHANGED <<agent_initialized, call, type_scores, typed, threads,
                   others>>

\* manager.process_user_query(query_text) called by the owner of the manager
ManagerQuery(query_text) ==
    /\ call = NoCall
    /\ LET answer == process_user_query(agent, query_text)
       IN  call' = [active |-> TRUE, query_text |-> query_text,
                    exc |-> answer.exc, raised |-> answer.raised,
                    result |-> answer.response]
    /\ UNCHANGED <<agent_initialized, agent, session_id, type_scores, typed,
                   threads, others>>

SessionNext ==
    \/ ManagerInitialize
    \/ \E query_text \in SessionInputs : ManagerQuery(query_text)
    \/ \E query_text \in SessionInputs : process_query(query_text)
    \/ Return

SessionSpec == Init /\ [][SessionNext]_vars

\* the step is a query: a call of process_user_query or of process_query
QueryStep == call = NoCall /\ call' # NoCall

\* the step is a call of QueryProcessor.process_query
ProcessQueryStep ==
    /\ QueryStep
    /\ "processed_query" \in DOMAIN call'.result

\* C24: within one session the session identifier and the loaded state of the
\* context stay the same across any sequence of queries: no query processed
\* after the agent has been initialised changes the AgentManager's session_id
\* or replaces its agent, whether the query goes through
\* AgentManager.process_user_query or through a QueryProcessor built on that
\* manager.
C24_QueriesKeepSession ==
    [][(QueryStep /\ agent # "None")
         => /\ agent' = agent
            /\ session_id' = session_id]_vars

\* what initialize_agent raises when it fails
InitErrors == InitFaults \ {"None"}

\* C29: a QueryProcessor marks its agent as initialised only after
\* initialize_agent has returned without error: a failed initialisation
\* leaves the flag false so that the next accepted query tries again, after a
\* successful initialisation no later process_query call initialises the
\* agent again, and the agent never receives a query before an
\* initialisation has succeeded.
C29_InitializedOnlyAfterSuccess ==
    /\ [](agent_initialized => agent # "None")
    /\ [][ProcessQueryStep
            => \* the flag is set by a call whose initialisation succeeded
               /\ (~agent_initialized /\ agent_initialized')
                    => agent' # "None" /\ call'.exc \notin InitErrors
               \* a failed initialisation leaves the flag false
               /\ call'.exc \in InitErrors
                    => /\ ~agent_initialized /\ ~agent_initialized'
                       /\ agent' = agent /\ session_id' = session_id
               \* the next accepted query tries again
               /\ (~agent_initialized /\ Validated[call'.query_text].is_valid)
                    => agent_initialized' \/ call'.exc \in InitErrors
               \* once set, no call initialises the agent again
               /\ agent_initialized
                    => /\ agent_initialized'
                       /\ agent' = agent /\ session_id' = session_id
               \* the agent is asked only after a successful initialisation
               /\ call'.exc # "RuntimeError"
               /\ call'.result.agent_response # NoResponse
                    => agent_initialized' /\ agent' # "None"]_vars

\* an accepted query answered by the agent the processor initialised
C29_Witness ==
    /\ AcceptedCall
    /\ Returned
    /\ "processed_query" \in DOMAIN call.result
    /\ call.result.agent_response # NoResponse
    /\ agent_initialized
    /\ agent = "BangaloreLocalAgent"
    /\ session_id \in 1..MaxClock

----------------------------------------------------------------------------
(* The two classifiers: the analyzer's patterns and the agent's keywords *)

\* C30: for every query that process_query answers successfully, the response
\* template chosen by the agent belongs to the same intent as the query_type
\* reported in the processed query: the agent's own keyword classification
\* and the analyzer's pattern classification agree on every accepted text.
C30_ClassifiersAgree ==
    (Returned /\ call.result.success)
      => call.result.agent_response.template
           = call.result.processed_query.query_type

----------------------------------------------------------------------------
(* One process_query call followed statement by statement.  The stage of the
   call is the statement it has reached: entered (line 267), validate_query
   called (271), the rejection returned (273-289) or the cleaned text kept,
   analyze_query classifying (166), extracting the slots (169-175), and the
   result returned by one of the return statements of lines 294-337. *)

PipelineInputs == CallerInputs \cup Examples

\* what a call followed stage by stage leaves alone
pipelineOthers ==
    <<call, type_scores, typed, threads, analyzerVars, contextVars, errorVars,
      integrationVars>>

\* the locals of a call that has reached stage
Pipeline(stage, query_text, v, found, slots, result) ==
    [stage |-> stage, query_text |-> query_text, v |-> v, found |-> found,
     slots |-> slots, result |-> result]

\* line 267: the call is entered
Receive(query_text) ==
    /\ pipeline = NoPipeline
    /\ pipeline' = Pipeline("Received", query_text, None, None, None, None)
    /\ UNCHANGED <<agent_initialized, agent, session_id, pipelineOthers>>

\* line 271: validate_query is called
Validate ==
    /\ pipeline.stage = "Received"
    /\ pipeline' = [pipeline EXCEPT !.stage = "Validating",
                                    !.v = Validated[pipeline.query_text]]
    /\ UNCHANGED <<agent_initialized, agent, session_id, pipelineOthers>>

\* the return statement missing: the rejected text goes on to the analyzer
Reject_fall_through ==
    /\ pipeline.stage = "Validating"
    /\ ~pipeline.v.is_valid
    /\ pipeline' = [pipeline EXCEPT !.stage = "Validated"]
    /\ UNCHANGED <<agent_initialized, agent, session_id, pipelineOthers>>

\* lines 273-289: the validator said no and the call returns
Reject ==
    /\ pipeline.stage = "Validating"
    /\ ~pipeline.v.is_valid
    /\ pipeline' =
         [pipeline EXCEPT
            !.stage = "Rejected",
            !.result = RejectedResult(pipeline.query_text,
                                      pipeline.v.error_message)]
    /\ UNCHANGED <<agent_initialized, agent, session_id, pipelineOthers>>

\* line 273 not taken: the call goes on with cleaned_text
Accept ==
    /\ pipeline.stage = "Validating"
    /\ pipeline.v.is_valid
    /\ pipeline' = [pipeline EXCEPT !.stage = "Validated"]
    /\ UNCHANGED <<agent_initialized, agent, session_id, pipelineOthers>>

\* line 292 and analyze_query lines 163-166 (analyze_query is looked up)
Classify ==
    /\ pipeline.stage = "Validated"
    /\ pipeline' =
         [pipeline EXCEPT
            !.stage = "Classifying",
            !.found =
               [query_type |-> Analyzed[pipeline.v.cleaned_text].query_type,
                confidence |-> Analyzed[pipeline.v.cleaned_text].confidence]]
    /\ UNCHANGED <<agent_initialized, agent, session_id, pipelineOthers>>

\* analyze_query lines 169-175
ExtractSlots ==
    /\ pipeline.stage = "Classifying"
    /\ LET analyzed == Analyzed[pipeline.v.cleaned_text]
       IN  pipeline' =
             [pipeline EXCEPT
                !.stage = "Slotting",
                !.slots =
                   [keywords         |-> analyzed.keywords,
                    time_context     |-> analyzed.time_context,
                    location_context |-> analyzed.location_context]]
    /\ UNCHANGED <<agent_initialized, agent, session_id, pipelineOthers>>

\* analyze_query lines 178-189: the ProcessedQuery of the call
PipelineQuery ==
    [original_text    |-> pipeline.v.cleaned_text,
     cleaned_text     |-> pipeline.v.cleaned_text,
     query_type       |-> pipeline.found.query_type,
     keywords         |-> pipeline.slots.keywords,
     time_context     |-> pipeline.slots.time_context,
     location_context |-> pipeline.slots.location_context,
     confidence       |-> pipeline.found.confidence,
     is_valid         |-> IsValid(pipeline.found.query_type,
                                  pipeline.found.confidence)]

\* the call returns result
Completes(result) ==
    pipeline' = [pipeline EXCEPT !.stage = "Complete", !.result = result]

\* lines 294-337: the rest of the call, up to its return statement
Complete ==
    /\ pipeline.stage = "Slotting"
    /\ UNCHANGED pipelineOthers
    /\ LET processed_query == PipelineQuery
           cleaned_text    == pipeline.v.cleaned_text
           failed(exc)     ==
             Completes(ExceptResult(pipeline.query_text, cleaned_text, exc))
       IN  IF ~processed_query.is_valid
           THEN /\ Completes(NotUnderstoodResult(processed_query))
                /\ UNCHANGED <<agent_initialized, agent, session_id>>
           ELSE
           IF agent_initialized
           THEN LET answer == process_user_query(agent, cleaned_text)
                IN  /\ UNCHANGED <<agent_initialized, agent, session_id>>
                    /\ IF answer.raised
                       THEN failed(answer.exc)
                       ELSE Completes(SuccessResult(processed_query,
                                                    answer.response))
           ELSE
           \E fault \in InitFaults, now \in 1..MaxClock :
             LET init == initialize_agent(fault, now)
             IN  IF init.raised
                 THEN /\ failed(init.exc)
                      /\ UNCHANGED <<agent_initialized, agent, session_id>>
                 ELSE
                 LET answer == process_user_query(init.agent, cleaned_text)
                 IN  /\ agent_initialized' = TRUE
                     /\ agent' = init.agent
                     /\ session_id' = init.session_id
                     /\ IF answer.raised
                        THEN failed(answer.exc)
                        ELSE Completes(SuccessResult(processed_query,
                                                     answer.response))

\* the caller takes the result of the call
PipelineReturn ==
    /\ pipeline.stage \in {"Rejected", "Complete"}
    /\ pipeline' = NoPipeline
    /\ UNCHANGED <<agent_initialized, agent, session_id, pipelineOthers>>

\* the statements of a call that has been entered
PipelineStep ==
    \/ Validate
    \/ Reject
    \/ Accept
    \/ Classify
    \/ ExtractSlots
    \/ Complete

PipelineNext ==
    \/ \E query_text \in PipelineInputs : Receive(query_text)
    \/ PipelineStep
    \/ PipelineReturn

\* the call is synchronous and has no loop and no blocking statement: once
\* entered, it goes on to its next statement
PipelineSpec ==
    Init /\ [][PipelineNext]_vars /\ WF_vars(PipelineStep)

\* the stage that may follow each stage, and the start of the next call
StageOrder ==
    { <<"Idle", "Received">>, <<"Received", "Validating">>,
      <<"Validating", "Rejected">>, <<"Validating", "Validated">>,
      <<"Validated", "Classifying">>, <<"Classifying", "Slotting">>,
      <<"Slotting", "Complete">>,
      <<"Rejected", "Idle">>, <<"Complete", "Idle">> }

\* C21: each process_query call moves through its stages once and in order,
\* Received, Validating, then either Rejected or Validated, Classifying,
\* Slotting, Complete; it never returns to an earlier stage, it ends in
\* exactly one of the two terminal stages Rejected and Complete, and
\* classification and slot extraction never run for a rejected input.
C21_StagesInOrder ==
    /\ [][pipeline' # pipeline
            => <<pipeline.stage, pipeline'.stage>> \in StageOrder]_vars
    /\ [](pipeline.stage \in {"Validated", "Classifying", "Slotting",
                              "Complete"}
            => Validated[pipeline.query_text].is_valid)
    /\ [](pipeline.stage = "Rejected"
            => /\ ~Validated[pipeline.query_text].is_valid
               /\ pipeline.found = None
               /\ pipeline.slots = None)
    /\ [](pipeline.stage \in {"Rejected", "Complete"}
            <=> (pipeline # NoPipeline /\ pipeline.result # None))
    /\ (pipeline.stage = "Received")
         ~> (pipeline.stage \in {"Rejected", "Complete"})

\* a call that went through classification and slot extraction and returned
C21_Witness ==
    /\ pipeline.stage = "Complete"
    /\ pipeline.found # None
    /\ pipeline.slots # None
    /\ pipeline.result.success

----------------------------------------------------------------------------
(* ContextManager: the product file, the cached context and load_context.
   A file content is described by what load_context looks at: its length,
   whether it is all whitespace, and the "## " section headings it holds. *)

required_sections ==
    { "City Overview", "Languages Spoken", "Local Slang and Meanings",
      "Traffic Patterns and Peak Hours",
      "Popular Breakfast Spots and Street Food Areas",
      "Cultural Norms and Etiquette", "Practical Local Tips" }

\* len(content) < 1000
min_content_length == 1000

\* the contents written to the product file: empty, whitespace only, one
\* character too short, one section missing, and two complete documents
FileContents ==
    { [length |-> 0, blank |-> TRUE, sections |-> {}],
      [length |-> min_content_length + 200, blank |-> TRUE, sections |-> {}],
      [length |-> min_content_length - 1, blank |-> FALSE,
       sections |-> required_sections],
      [length |-> min_content_length, blank |-> FALSE,
       sections |-> required_sections \ {"Practical Local Tips"}],
      [length |-> min_content_length, blank |-> FALSE,
       sections |-> required_sections],
      [length |-> min_content_length + 1000, blank |-> FALSE,
       sections |-> required_sections] }

\* LocalContext(content, source_file, last_updated) read from the file
LocalContext(file) ==
    [content |-> file.content, source_file |-> "product.md",
     last_updated |-> file.mtime]

\* _is_cache_valid of a manager holding cache and check_time: stat() raises
\* OSError when the file is gone
CacheValid(cache, check_time) ==
    IF cache = None \/ check_time = None THEN FALSE
    ELSE IF product_file = NoFile THEN FALSE
    ELSE product_file.mtime <= cache.last_updated

_is_cache_valid == CacheValid(_cached_context, _last_check_time)

\* _validate_context_structure raises when a required section is missing
MissingSections(content) == required_sections \ content.sections

\* load_context raises exc and the manager keeps what it had
LoadFails(cache, check_time, exc, message) ==
    [called |-> TRUE, raised |-> TRUE, exc |-> exc, message |-> message,
     context |-> None, cache |-> cache, check_time |-> check_time]

\* load_context(force_reload) at clock reading now on a manager holding cache
\* and check_time: what it returns or raises, and the cache and check time
\* it leaves
LoadFrom(cache, check_time, force_reload, now) ==
    IF ~force_reload /\ cache # None /\ CacheValid(cache, check_time)
    THEN [called |-> TRUE, raised |-> FALSE, exc |-> "None",
          message |-> "None", context |-> cache,
          cache |-> cache, check_time |-> check_time]
    ELSE IF product_file = NoFile
    THEN LoadFails(cache, check_time, "FileNotFoundError",
                   "Product knowledge file not found")
    ELSE IF product_file.content.blank
    THEN LoadFails(cache, check_time, "ValueError", "Product file is empty")
    ELSE IF product_file.content.length < min_content_length
    THEN LoadFails(cache, check_time, "ValueError",
                   "Product file content appears incomplete")
    ELSE IF MissingSections(product_file.content) # {}
    THEN LoadFails(cache, check_time, "ValueError",
                   "Context missing required sections")
    ELSE [called |-> TRUE, raised |-> FALSE, exc |-> "None",
          message |-> "None", context |-> LocalContext(product_file),
          cache |-> LocalContext(product_file), check_time |-> [at |-> now]]

\* the context cached as soon as it is built, before its sections are checked
load_context_cache_first(force_reload, now) ==
    LET outcome == LoadFrom(_cached_context, _last_check_time, force_reload,
                            now)
    IN  IF outcome.message = "Context missing required sections"
        THEN [outcome EXCEPT !.cache = LocalContext(product_file),
                             !.check_time = [at |-> now]]
        ELSE outcome

\* ContextManager.load_context(force_reload) at clock reading now
load_context(force_reload, now) ==
    LoadFrom(_cached_context, _last_check_time, force_reload, now)

\* what the context manager and its file leave alone
contextOthers ==
    <<agent_initialized, agent, session_id, call, type_scores, typed, threads,
      pipelineVars, analyzerVars, errorVars, integrationVars>>

\* the file is written by its owner, at modification time mtime
WriteFile(content, mtime) ==
    /\ product_file' = [exists |-> TRUE, content |-> content, mtime |-> mtime]
    /\ UNCHANGED <<_cached_context, _last_check_time, loaded, contextOthers>>

\* the file is removed
DeleteFile ==
    /\ product_file # NoFile
    /\ product_file' = NoFile
    /\ UNCHANGED <<_cached_context, _last_check_time, loaded, contextOthers>>

\* a call of load_context; reload_context is load_context(force_reload=True)
LoadContext(force_reload, now) ==
    /\ loaded' = load_context(force_reload, now)
    /\ _cached_context' = loaded'.cache
    /\ _last_check_time' = loaded'.check_time
    /\ UNCHANGED <<product_file, contextOthers>>

ContextNext ==
    \/ \E content \in FileContents, mtime \in 1..MaxClock :
         WriteFile(content, mtime)
    \/ DeleteFile
    \/ \E force_reload \in BOOLEAN, now \in 1..MaxClock :
         LoadContext(force_reload, now)

ContextSpec == Init /\ [][ContextNext]_vars

\* C23: a load_context call that fails (file missing, empty, too short, or
\* lacking a required section) leaves the ContextManager's cached context
\* exactly as it was before the call, both when nothing was cached and when
\* an earlier load had succeeded.
C23_FailedLoadKeepsCache ==
    [][(loaded'.called /\ loaded'.raised)
         => /\ _cached_context' = _cached_context
            /\ _last_check_time' = _last_check_time]_vars

\* a load failed on a missing section after an earlier load had succeeded,
\* and the context cached by the earlier load is still there
C23_Witness ==
    /\ loaded.called
    /\ loaded.raised
    /\ loaded.message = "Context missing required sections"
    /\ _cached_context # None
    /\ MissingSections(_cached_context.content) = {}
    /\ product_file # NoFile
    /\ MissingSections(product_file.content) # {}

----------------------------------------------------------------------------
(* ErrorHandler: the error history *)

\* the six handle_* methods with the ErrorInfo each one builds
Handlers ==
    { [handler |-> "handle_context_loading_error",
       error_type |-> "context_loading", severity |-> "critical"],
      [handler |-> "handle_agent_initialization_error",
       error_type |-> "agent_initialization", severity |-> "high"],
      [handler |-> "handle_query_processing_error",
       error_type |-> "query_processing", severity |-> "medium"],
      [handler |-> "handle_file_access_error",
       error_type |-> "file_access", severity |-> "high"],
      [handler |-> "handle_validation_error",
       error_type |-> "validation", severity |-> "low"],
      [handler |-> "handle_unknown_error",
       error_type |-> "unknown", severity |-> "high"] }

\* ErrorInfo(error_type=..., severity=..., ...)
ErrorInfo(h) == [error_type |-> h.error_type, severity |-> h.severity]

\* list[start:] as Python computes it: a negative start counts from the end
\* and is clipped at the beginning of the list
SliceFrom(list, start) ==
    LET n     == Len(list)
        first == IF start < 0
                 THEN (IF n + start < 0 THEN 0 ELSE n + start)
                 ELSE (IF start > n THEN n ELSE start)
    IN  SubSeq(list, first + 1, n)

\* self._error_history[-count:] if self._error_history else []
get_recent_errors(count) ==
    IF _error_history # <<>> THEN SliceFrom(_error_history, 0 - count)
    ELSE <<>>

\* what the error handler leaves alone
errorOthers ==
    <<agent_initialized, agent, session_id, call, type_scores, typed, threads,
      pipelineVars, analyzerVars, contextVars, integrationVars>>

\* one of the handle_* methods: the ErrorInfo is appended and returned
HandleError(h) ==
    /\ Len(_error_history) < MaxErrors
    /\ _error_history' = Append(_error_history, ErrorInfo(h))
    /\ returned' = [called |-> TRUE, op |-> h.handler, count |-> 0,
                    value |-> ErrorInfo(h)]
    /\ UNCHANGED errorOthers

\* get_error_history returns a copy of the list
GetErrorHistory ==
    /\ returned' = [called |-> TRUE, op |-> "get_error_history", count |-> 0,
                    value |-> _error_history]
    /\ UNCHANGED <<_error_history, errorOthers>>

GetRecentErrors(count) ==
    /\ returned' = [called |-> TRUE, op |-> "get_recent_errors",
                    count |-> count, value |-> get_recent_errors(count)]
    /\ UNCHANGED <<_error_history, errorOthers>>

ClearErrorHistory ==
    /\ _error_history' = <<>>
    /\ returned' = [called |-> TRUE, op |-> "clear_error_history",
                    count |-> 0, value |-> <<>>]
    /\ UNCHANGED errorOthers

ErrorHandlerNext ==
    \/ \E h \in Handlers : HandleError(h)
    \/ GetErrorHistory
    \/ \E count \in 0..(MaxErrors + 1) : GetRecentErrors(count)
    \/ ClearErrorHistory

ErrorHandlerSpec == Init /\ [][ErrorHandlerNext]_vars

\* the last k entries of the list
LastOf(list, k) == SubSeq(list, Len(list) - k + 1, Len(list))

\* the smaller of two numbers
Smaller(a, b) == IF a < b THEN a ELSE b

\* C25: after any sequence of ErrorHandler operations, the error history
\* holds exactly one entry per handle_* call made since the last
\* clear_error_history, in call order; get_recent_errors(count) returns the
\* last min(count, length) of them for every count of 0 or more; and
\* clear_error_history leaves the history empty.
C25_ErrorHistory ==
    /\ [][returned'.called
            => /\ returned'.op \in {h.handler : h \in Handlers}
                    => _error_history'
                         = Append(_error_history, returned'.value)
               /\ returned'.op \in {"get_error_history", "get_recent_errors"}
                    => _error_history' = _error_history
               /\ returned'.op = "clear_error_history"
                    => _error_history' = <<>>]_vars
    /\ []((returned.called /\ returned.op = "get_recent_errors")
            => returned.value
                 = LastOf(_error_history,
                          Smaller(returned.count, Len(_error_history))))

----------------------------------------------------------------------------
(* IntegrationManager: initialize_system and reload_system_context.  The
   manager's ContextManager is the one of _cached_context and
   _last_check_time, its ErrorHandler the one of _error_history. *)

\* LocalContext.is_valid: bool(self.content and self.source_file)
is_valid(context) == context.content.length > 0 /\ context.source_file # ""

\* _get_system_status
_get_system_status(im) ==
    [context_loaded    |-> im.context # None /\ is_valid(im.context),
     agent_initialized |-> im.agent,
     processor_ready   |-> im.query_processor]

\* the error handler method called for a failure of each step
StepHandler(step) ==
    CHOOSE h \in Handlers :
      h.handler = CASE step = "context" -> "handle_context_loading_error"
                    [] step = "agent" -> "handle_agent_initialization_error"
                    [] OTHER -> "handle_unknown_error"

\* IntegrationResult of a call that went through the steps reached
IntegrationResult(op, success, reached) ==
    [called |-> TRUE, op |-> op, success |-> success, reached |-> reached]

\* a step failed: its error is handled, kept in initialization_errors, and
\* the failure is what the call returns
StepFails(im, op, reached) ==
    LET error_info == ErrorInfo(StepHandler(reached[Len(reached)]))
    IN  /\ Len(_error_history) < MaxErrors
        /\ _error_history' = Append(_error_history, error_info)
        /\ returned' = [called |-> TRUE,
                        op |-> StepHandler(reached[Len(reached)]).handler,
                        count |-> 0, value |-> error_info]
        /\ integration' =
             [im EXCEPT
                !.initialization_errors = Append(@, error_info),
                !.last = IntegrationResult(op, FALSE, reached)]

\* what the integration manager leaves alone
integrationOthers ==
    <<agent_initialized, agent, session_id, call, type_scores, typed, threads,
      pipelineVars, analyzerVars>>

\* initialize_system: _initialize_context on a new ContextManager, then
\* _initialize_agent on a new AgentManager, then _initialize_processor; the
\* first step that fails returns its result
InitializeSystem(fault, now) ==
    LET outcome == LoadFrom(None, None, FALSE, now)
        step1   == [integration EXCEPT !.context_manager = TRUE]
        step2   == [step1 EXCEPT !.context = outcome.context,
                                 !.agent_manager = TRUE]
        step3   == [step2 EXCEPT !.agent = TRUE, !.query_processor = TRUE]
    IN  /\ loaded' = outcome
        /\ _cached_context' = outcome.cache
        /\ _last_check_time' = outcome.check_time
        /\ UNCHANGED <<product_file, integrationOthers>>
        /\ IF outcome.raised
           THEN StepFails(step1, "initialize_system", <<"context">>)
           ELSE IF initialize_agent(fault, now).raised
           THEN StepFails(step2, "initialize_system", <<"context", "agent">>)
           ELSE /\ integration' =
                     [step3 EXCEPT
                        !.system_initialized = TRUE,
                        !.last = IntegrationResult(
                                   "initialize_system", TRUE,
                                   <<"context", "agent", "processor">>)]
                /\ UNCHANGED errorVars

\* reload_system_context
ReloadSystemContext(now) ==
    /\ UNCHANGED <<product_file, integrationOthers>>
    /\ IF ~integration.context_manager
       THEN /\ integration' =
                 [integration EXCEPT
                    !.last = IntegrationResult("reload_system_context",
                                               FALSE, <<>>)]
            /\ UNCHANGED <<_cached_context, _last_check_time, loaded,
                           errorVars>>
       ELSE LET outcome == load_context(TRUE, now)
            IN  /\ loaded' = outcome
                /\ _cached_context' = outcome.cache
                /\ _last_check_time' = outcome.check_time
                /\ IF outcome.raised
                   THEN StepFails(integration, "reload_system_context",
                                  <<"reload">>)
                   ELSE /\ integration' =
                             [integration EXCEPT
                                !.context = outcome.context,
                                !.last = IntegrationResult(
                                           "reload_system_context", TRUE,
                                           <<"reload">>)]
                        /\ UNCHANGED errorVars

IntegrationNext ==
    \/ \E fault \in InitFaults, now \in 1..MaxClock :
         InitializeSystem(fault, now)
    \/ \E now \in 1..MaxClock : ReloadSystemContext(now)
    \/ \E content \in FileContents : WriteFile(content, 1)
    \/ DeleteFile

IntegrationSpec == Init /\ [][IntegrationNext]_vars

\* the steps of initialize_system in their order
InitializationOrder == <<"context", "agent", "processor">>

\* C27: IntegrationManager initialises its components in the order context,
\* agent, query processor and stops at the first step that fails; in every
\* reachable state, system_initialized is true only if the context is loaded
\* and valid, the agent exists and the query processor exists, and a failed
\* initialize_system leaves system_initialized false.
C27_InitializedOnlyWhenComplete ==
    /\ (integration.last.called
          /\ integration.last.op = "initialize_system")
         => /\ \E n \in 1..3 :
                 integration.last.reached = SubSeq(InitializationOrder, 1, n)
            /\ integration.last.success
                 <=> integration.last.reached = InitializationOrder
            /\ ~integration.last.success => ~integration.system_initialized
    /\ integration.system_initialized
         => /\ _get_system_status(integration).context_loaded
            /\ _get_system_status(integration).agent_initialized
            /\ _get_system_status(integration).processor_ready

----------------------------------------------------------------------------
(* The analyzer with the query_patterns dict in any insertion order: the same
   text analysed twice, under two orders of the intent tables *)

Reversed(seq) == [i \in 1..Len(seq) |-> seq[Len(seq) + 1 - i]]

\* insertion orders of query_patterns: the one of the source, its reverse and
\* a shuffle
IntentOrders ==
    { QueryTypeOrder, Reversed(QueryTypeOrder),
      <<"slang", "culture", "food", "itinerary", "traffic">> }

\* the texts analysed twice
AnalyzerInputs ==
    {
      \* two intents with one match each and a morning word
      <<"b", "r", "e", "a", "k", "f", "a", "s", "t", " ", "t", "r", "a", "f", "f", "i", "c">>,
      \* two intents with one match each and an area
      <<"S", "i", "l", "k", " ", "B", "o", "a", "r", "d", " ", "p", "l", "a", "n">>,
      \* an area that is also a food word, and a culture word
      <<"M", "a", "l", "l", "e", "s", "h", "w", "a", "r", "a", "m", " ", "t", "e", "m", "p", "l", "e">>,
      \* two intents with one match each and a clock time
      <<"t", "e", "m", "p", "l", "e", " ", "t", "r", "i", "p", " ", "a", "t", " ", "7", "p", "m">>,
      \* one intent only
      <<"s", "t", "r", "e", "e", "t", " ", "f", "o", "o", "d">>,
      \* no intent, no slot
      <<"h", "e", "l", "l", "o">> }

\* max(type_scores, key=type_scores.get) when the dict was filled in order
BestTypeIn(order, scores) ==
    LET keys == {k \in 1..Len(order) : order[k] \in DOMAIN scores}
        best == CHOOSE k \in keys :
                  /\ \A j \in keys : scores[order[j]] <= scores[order[k]]
                  /\ \A j \in keys : j < k =>
                        scores[order[j]] < scores[order[k]]
    IN  order[best]

\* _determine_query_type when the dict was filled in order
SelectTypeIn(order, scores) ==
    IF DOMAIN scores = {}
    THEN [query_type |-> "general", confidence |-> 5]
    ELSE LET best_type == BestTypeIn(order, scores)
         IN  [query_type |-> best_type,
              confidence |-> Confidence(scores[best_type])]

\* type_scores of each text, computed once
AnalyzerScores == [t \in AnalyzerInputs |-> TypeScores(Lower(t))]

\* the area looked up for the traffic and food intents only
analyze_in_typed_location(order, query_text) ==
    LET query_lower == Lower(query_text)
        found       == SelectTypeIn(order, AnalyzerScores[query_text])
    IN  [text             |-> query_text,
         order            |-> order,
         query_type       |-> found.query_type,
         confidence       |-> found.confidence,
         time_context     |-> _extract_time_context(query_lower),
         location_context |->
            IF found.query_type \in {"food", "traffic"}
            THEN _extract_location_context(query_lower)
            ELSE "None"]

\* analyze_query when the dict was filled in order
analyze_in(order, query_text) ==
    LET query_lower == Lower(query_text)
        found       == SelectTypeIn(order, AnalyzerScores[query_text])
    IN  [text             |-> query_text,
         order            |-> order,
         query_type       |-> found.query_type,
         confidence       |-> found.confidence,
         time_context     |-> _extract_time_context(query_lower),
         location_context |-> _extract_location_context(query_lower)]

\* what the analyzer leaves alone
analyzerOthers ==
    <<agent_initialized, agent, session_id, call, type_scores, typed, threads,
      pipelineVars, contextVars, errorVars, integrationVars>>

\* one analyze_query call; the analysis made before it is kept beside it
AnalyzeQuery(order, query_text) ==
    /\ analysis' =
         (IF analysis = <<>> THEN <<>> ELSE <<analysis[Len(analysis)]>>)
           \o <<analyze_in(order, query_text)>>
    /\ UNCHANGED analyzerOthers

AnalyzerNext ==
    \E order \in IntentOrders, query_text \in AnalyzerInputs :
      AnalyzeQuery(order, query_text)

AnalyzerSpec == Init /\ [][AnalyzerNext]_vars

\* C22: slot independence: for every text, the extracted time slot and
\* location slot are the same whatever intent the classifier assigns and
\* whatever the priority order of the intent tables is.
C22_SlotsIndependentOfIntent ==
    (Len(analysis) = 2 /\ analysis[1].text = analysis[2].text)
      => /\ analysis[1].time_context = analysis[2].time_context
         /\ analysis[1].location_context = analysis[2].location_context

\* one text given two different intents under two orders of the tables, with
\* the same area found both times
C22_Witness ==
    /\ Len(analysis) = 2
    /\ analysis[1].text = analysis[2].text
    /\ analysis[1].order # analysis[2].order
    /\ analysis[1].query_type # analysis[2].query_type
    /\ analysis[1].location_context = "silk_board"
    /\ analysis[2].location_context = "silk_board"

====
